---- MODULE Spec2Model ----
(***************************************************************************)
(* Session memory service of the chat backend                              *)
(* (src/functions/memory_functions.py) over a checkpoint store keyed by    *)
(* session id (langgraph SqliteSaver, src/utils/utils.py).                 *)
(*                                                                         *)
(* A client (an HTTP handler, a test) invokes one service operation at a   *)
(* time; the operation runs as a sequence of steps, one per store access   *)
(* (memory.get / memory.put), each together with the local computation     *)
(* that follows it up to the next store access.  Spec lets one client run  *)
(* its calls one after the other; SpecConc interleaves the steps of two    *)
(* clients; it assumes a store that does not fail and keeps no log of the  *)
(* sequential run (env.faults, env.track).                                 *)
(*                                                                         *)
(* The checkpoint fields id (uuid4) and ts are written but never read by   *)
(* any operation; they are left out of the record.                         *)
(*                                                                         *)
(* SpecGraph is the approval graph of src/tempfile2.py on its own thread    *)
(* (variable snapshot); the chat backend does not touch it.                *)
(***************************************************************************)
EXTENDS Integers, Sequences, FiniteSets, TLC

VARIABLES store, call, now, lastOp, lastPut, firstPut, saved, lastDone, req,
          overlapped, snapshot

vars == <<store, call, now, lastOp, lastPut, firstPut, saved, lastDone, req,
          overlapped, snapshot>>

(* ------------------------------ bounds -------------------------------- *)

\* save_message is not invoked on a session that already holds MaxHist messages
MaxHist == 2
\* the wall clock (datetime.now()) takes the values 0..MaxNow
MaxNow == 1
\* get_conversation_context is invoked with max_messages in 0..MaxK
MaxK == 3
\* a session of the long conversations holds up to MaxLong messages when a
\* chat request arrives
MaxLong == 11

Sessions == {"s1", "s2"}
Procs == {"p1", "p2"}
\* the one client of the sequential specification
SeqClients == {"p1"}
\* the session the concurrent clients share
ConcSessions == {"s1"}

\* the environment of a run: the outcomes a store access may have (TRUE: it
\* raises) and whether the history variables of the sequential run are kept
\* (stamps: the log of saved messages keeps their timestamps; log: the
\* log is kept although the calls are not tracked)
SeqEnv == [faults |-> BOOLEAN, track |-> TRUE, stamps |-> FALSE, log |-> FALSE]
ConcEnv == [faults |-> {FALSE}, track |-> FALSE, stamps |-> FALSE, log |-> FALSE]
TimeEnv == [faults |-> {FALSE}, track |-> TRUE, stamps |-> TRUE, log |-> FALSE]
HttpEnv == [faults |-> BOOLEAN, track |-> FALSE, stamps |-> FALSE, log |-> FALSE]
LogEnv == [faults |-> {FALSE}, track |-> FALSE, stamps |-> FALSE, log |-> TRUE]

\* ChatMessage.role is a plain str (schemas.py:20); the handlers use user and assistant
ChatRoles == {"user", "assistant"}
\* role/content pairs a client passes to save_message
MessageInputs ==
    { [role |-> "user", content |-> "a"],
      [role |-> "assistant", content |-> "b"],
      [role |-> "system", content |-> "b"] }
ChatInputs == { m \in MessageInputs : m.role \in ChatRoles }

(* --------------------------- data and helpers -------------------------- *)

\* memory.get returns None for an unknown thread id
NoCheckpoint == [none |-> TRUE]
NoInfo == [none |-> TRUE]
NoMsg == [role |-> "user", content |-> "a", timestamp |-> 0]
\* no UploadFile
NoFile == [filename |-> "", size |-> 0, body |-> "", readable |-> TRUE]

IsCheckpoint(c) == c # NoCheckpoint

\* models.schemas.ChatMessage
ChatMessage(role, content, timestamp) ==
    [role |-> role, content |-> content, timestamp |-> timestamp]

\* models.schemas.SessionInfo
SessionInfo(session_id, created_at, last_activity, message_count) ==
    [session_id |-> session_id, created_at |-> created_at,
     last_activity |-> last_activity, message_count |-> message_count]

RECURSIVE SeqMin(_)
SeqMin(s) ==
    IF Len(s) = 1 THEN s[1]
    ELSE LET m == SeqMin(Tail(s)) IN IF s[1] < m THEN s[1] ELSE m

RECURSIVE SeqMax(_)
SeqMax(s) ==
    IF Len(s) = 1 THEN s[1]
    ELSE LET m == SeqMax(Tail(s)) IN IF s[1] > m THEN s[1] ELSE m

\* HumanMessage / AIMessage: the stored form keeps the type and the content only
_convert_to_langchain_message(message) ==
    IF message.role = "user"
    THEN [type |-> "human", content |-> message.content]
    ELSE [type |-> "ai", content |-> message.content]

ConvertFromLangchainAllUser(message, t) ==
    ChatMessage("user", message.content, t)

\* the timestamp is the time of the read, not of the save
_convert_from_langchain_message(message, t) ==
    ChatMessage(IF message.type = "human" THEN "user" ELSE "assistant",
                message.content, t)

\* mutant of FreshCheckpoint: a new session starts with a greeting
FreshCheckpointWithGreeting ==
    [v |-> 1, messages |-> <<[type |-> "ai", content |-> "b"]>>]

\* the checkpoint create_session writes
FreshCheckpoint == [v |-> 1, messages |-> <<>>]

\* Python's seq[-n:] : -0 is 0, so seq[-0:] is the whole sequence
PySliceFromMinus(seq, n) ==
    LET start == IF n > 0
                 THEN (IF Len(seq) - n < 0 THEN 0 ELSE Len(seq) - n)
                 ELSE (IF -n > Len(seq) THEN Len(seq) ELSE -n)
    IN  SubSeq(seq, start + 1, Len(seq))

\* mutant of RecentMessages: the oldest max_messages messages are kept
RecentMessagesOldest(messages, max_messages) ==
    IF Len(messages) > max_messages
    THEN SubSeq(messages, 1, max_messages) ELSE messages

\* memory_functions.py:122
RecentMessages(messages, max_messages) ==
    IF Len(messages) > max_messages
    THEN PySliceFromMinus(messages, max_messages) ELSE messages

\* memory_functions.py:124-129
ContextOf(messages) ==
    [i \in 1..Len(messages) |->
        [role |-> messages[i].role, content |-> messages[i].content]]

\* memory_functions.py:103-104
HistoryOf(checkpoint, t) ==
    [i \in 1..Len(checkpoint.messages) |->
        _convert_from_langchain_message(checkpoint.messages[i], t)]

Exists(s) == IsCheckpoint(store[s])
StoredLen(s) == IF Exists(s) THEN Len(store[s].messages) ELSE 0

(* -------------------------------- strings ------------------------------ *)

Char(s, i) == SubSeq(s, i, i)

Whitespace == {" ", "\n", "\t"}

RECURSIVE LStrip(_)
LStrip(s) ==
    IF s = "" THEN s
    ELSE IF Char(s, 1) \in Whitespace THEN LStrip(Tail(s)) ELSE s

RECURSIVE RStrip(_)
RStrip(s) ==
    IF s = "" THEN s
    ELSE IF Char(s, Len(s)) \in Whitespace
         THEN RStrip(SubSeq(s, 1, Len(s) - 1)) ELSE s

\* str.strip()
Strip(s) == RStrip(LStrip(s))

UpperCase == "ABCDEFGHIJKLMNOPQRSTUVWXYZ"
LowerCase == "abcdefghijklmnopqrstuvwxyz"

LowerChar(c) ==
    LET I == {i \in 1..Len(UpperCase) : Char(UpperCase, i) = c} IN
    IF I = {} THEN c ELSE Char(LowerCase, CHOOSE i \in I : TRUE)

\* str.lower()
RECURSIVE Lower(_)
Lower(s) == IF s = "" THEN s ELSE LowerChar(Char(s, 1)) \o Lower(Tail(s))

\* s.split('.')[-1]: what follows the last dot, s itself when it has none
LastDotPart(s) ==
    LET dots == {i \in 1..Len(s) : Char(s, i) = "."} IN
    IF dots = {} THEN s
    ELSE SubSeq(s, (CHOOSE i \in dots : \A j \in dots : j <= i) + 1, Len(s))

\* s[:n]
PyPrefix(s, n) == SubSeq(s, 1, IF Len(s) < n THEN Len(s) ELSE n)

(* ------------------------------ FileService ---------------------------- *)

\* settings.upload_max_size = 10 * 1024 * 1024
upload_max_size == 10485760
allowed_extensions == {"txt", "pdf"}

\* an UploadFile: its name, its size in bytes, the text its bytes hold and
\* whether the bytes can be decoded (txt) or parsed (pdf)
UploadFile(filename, size, body, readable) ==
    [filename |-> filename, size |-> size, body |-> body, readable |-> readable]
UploadFiles ==
    { UploadFile("", upload_max_size, "de", TRUE),
      UploadFile("n.exe", upload_max_size, "de", TRUE),
      UploadFile("n.exe", upload_max_size + 1, "de", TRUE),
      UploadFile("n.txt", upload_max_size + 1, "de", TRUE),
      UploadFile("n.txt", upload_max_size, " \n", TRUE),
      UploadFile("n.txt", upload_max_size, "de", FALSE),
      UploadFile("N.PDF", upload_max_size, "", TRUE),
      UploadFile("N.PDF", upload_max_size, " \n", TRUE),
      UploadFile("N.PDF", upload_max_size, "de", FALSE),
      UploadFile("N.PDF", upload_max_size, " def", TRUE) }
Questions == {"q"}

\* the outcome of extract_text: the text, or the HTTPException raised;
\* read: whether the file's content was read for extraction
Extracted(text) == [status |-> 200, text |-> text, read |-> TRUE]
Rejected(read) == [status |-> 400, text |-> "", read |-> read]

\* line 44-61: the decoded content as it is
extract_text_from_txt(file) ==
    IF file.readable THEN Extracted(file.body) ELSE Rejected(TRUE)

\* line 21-41: the text of the pages, stripped
extract_text_from_pdf(file) ==
    IF file.readable THEN Extracted(Strip(file.body)) ELSE Rejected(TRUE)

\* mutant of extract_text: the content is extracted before the size and
\* the extension are looked at
ExtractTextBeforeValidation(file) ==
    LET extension == LastDotPart(Lower(file.filename))
        got == IF extension = "pdf" THEN extract_text_from_pdf(file)
               ELSE extract_text_from_txt(file)
    IN IF file.filename = "" THEN Rejected(FALSE)
       ELSE IF file.size > upload_max_size THEN Rejected(TRUE)
       ELSE IF extension \notin allowed_extensions THEN Rejected(TRUE)
       ELSE got

\* line 80-106
extract_text(file) ==
    LET extension == LastDotPart(Lower(file.filename)) IN
    IF file.filename = "" THEN Rejected(FALSE)
    ELSE IF file.size > upload_max_size THEN Rejected(FALSE)
    ELSE IF extension \notin allowed_extensions THEN Rejected(FALSE)
    ELSE IF extension = "txt" THEN extract_text_from_txt(file)
    ELSE IF extension = "pdf" THEN extract_text_from_pdf(file)
    ELSE Rejected(FALSE)

\* settings.max_context_length as configured (default 3000); the texts of
\* the model are a few characters long
MaxContextLength == 2

\* mutant of truncate_context: one character too many is kept
TruncateContextOffByOne(text, max_length) == PyPrefix(text, max_length + 1)

\* line 108-122: text[:max_length]
truncate_context(text, max_length) == PyPrefix(text, max_length)

(* ------------------------------- LLMService ---------------------------- *)

SystemInstruction ==
    "You are an expert assistant. Always provide answers in markdown format."

\* an optional str argument: <<>> is None, <<c>> is the string c
None == <<>>
Some(c) == <<c>>
\* "if context:" is false for None and for the empty string
Truthy(context) == context # None /\ context[1] # ""

Turn(role, content) == [role |-> role, content |-> content]

\* mutant of FormattedMessages: the conversation is sent without the
\* system instruction
FormattedMessagesBare(messages, context) ==
    (IF Truthy(context)
     THEN <<Turn("system", "Context information:\n" \o context[1])>>
     ELSE <<>>) \o messages

\* line 61-72: what generate_response hands to the provider
FormattedMessages(messages, context) ==
    <<Turn("system", SystemInstruction)>>
    \o (IF Truthy(context)
        THEN <<Turn("system", "Context information:\n" \o context[1])>>
        ELSE <<>>)
    \o messages

\* line 105-110: what generate_context_response passes on to
\* generate_response: one user turn and no context argument
ContextQuestionMessages(context, question) ==
    <<Turn("user", "Context:\n" \o context \o "\n\nQuestion: " \o question)>>

\* the provider's answer: a text, a completion without content, or an
\* OpenAIError
ProviderOutcomes == {"text", "empty", "error"}
ReplyText == "b"

(* ------------------------------ call frames ---------------------------- *)

Idle ==
    [op |-> "idle", pc |-> "idle", sid |-> "s1", msg |-> NoMsg, k |-> 0,
     checkpoint |-> NoCheckpoint, pre |-> NoCheckpoint, found |-> FALSE,
     status |-> "ok", fault |-> "none", ret |-> <<>>]

\* pre: the record of the session when the call was made (sequential runs)
Start(e, op, pc, sid, msg, k) ==
    [Idle EXCEPT !.op = op, !.pc = pc, !.sid = sid, !.msg = msg, !.k = k,
                 !.pre = IF e.track THEN store[sid] ELSE NoCheckpoint,
                 !.status = "running"]

\* the call ends with an exception; its locals are gone
Raise(c, where) ==
    [c EXCEPT !.pc = "done", !.status = "raised", !.fault = where,
              !.checkpoint = NoCheckpoint]

\* the call returns ret; its locals are gone
Finish(c, ret) ==
    [c EXCEPT !.pc = "done", !.status = "ok", !.ret = ret,
              !.checkpoint = NoCheckpoint]

\* what is remembered of the call that returned last (sequential runs)
NoneDone == [op |-> "other", sid |-> "s1", found |-> FALSE]

\* no HTTP request is being handled.  preStore, failed and events are
\* kept for the properties: the store when the request arrived, whether a
\* store access of the request raised, and the steps the handler has begun
NoRequest ==
    [h |-> "none", hpc |-> "idle", sid |-> "s1", given |-> TRUE,
     message |-> "", file |-> NoFile, text |-> "", context |-> None,
     reply |-> "", detail |-> "",
     messages |-> <<>>, info |-> NoInfo, status |-> 0,
     sent |-> <<>>, events |-> <<>>, failed |-> FALSE,
     preStore |-> [s \in Sessions |-> NoCheckpoint]]

(* the thread of the approval graph, src/tempfile2.py *)

\* graph.get_state(config) of a thread: the values of the State (messages,
\* approved), the node to run next ("none" for the empty tuple), the
\* pending interrupts and the resume value handed in with Command(resume=)
\* that need_approval has not taken yet
Snapshot(messages, approved, next, interrupts, resume) ==
    [messages |-> messages, approved |-> approved, next |-> next,
     interrupts |-> interrupts, resume |-> resume,
     \* run_with is inside a graph.stream call
     streaming |-> FALSE,
     \* the human response need_approval printed last (line 49)
     received |-> None]

\* the thread before its first run
NoSnapshot ==
    [Snapshot(<<>>, FALSE, "none", <<>>, None) EXCEPT !.streaming = FALSE,
                                                       !.received = None]

TypeOK ==
    /\ \A s \in Sessions : store[s] = NoCheckpoint \/ store[s].v = 1
    /\ now \in 0..MaxNow
    /\ \A p \in Procs : call[p].status \in {"ok", "running", "raised"}

Init ==
    /\ store = [s \in Sessions |-> NoCheckpoint]
    /\ call = [p \in Procs |-> Idle]
    /\ now = 0
    /\ lastOp = "none"
    /\ lastPut = [s \in Sessions |-> NoCheckpoint]
    /\ firstPut = [s \in Sessions |-> "none"]
    /\ saved = [s \in Sessions |-> <<>>]
    /\ lastDone = NoneDone
    /\ req = [p \in Procs |-> NoRequest]
    /\ overlapped = FALSE
    /\ snapshot = NoSnapshot

(* ------------------------------ the store ------------------------------ *)

\* mutant of StorePut: the thread_id of the config is ignored and the
\* record is written for every session
StorePutEverywhere(e, s, checkpoint, log) ==
    /\ store' = [t \in Sessions |-> checkpoint]
    /\ lastOp' = "put"
    /\ lastPut' = [lastPut EXCEPT ![s] = checkpoint]
    /\ firstPut' = [firstPut EXCEPT ![s] =
                      IF @ # "none" THEN @
                      ELSE IF checkpoint.messages = <<>> THEN "empty" ELSE "nonempty"]
    /\ saved' = IF e.track \/ e.log THEN [saved EXCEPT ![s] = log] ELSE saved

\* memory.put(config, checkpoint, {}, {}) succeeded: the record of session s is
\* replaced as a whole
StorePut(e, s, checkpoint, log) ==
    /\ store' = [store EXCEPT ![s] = checkpoint]
    /\ lastOp' = "put"
    /\ lastPut' = [lastPut EXCEPT ![s] = checkpoint]
    /\ firstPut' = [firstPut EXCEPT ![s] =
                      IF @ # "none" THEN @
                      ELSE IF checkpoint.messages = <<>> THEN "empty" ELSE "nonempty"]
    /\ saved' = IF e.track \/ e.log THEN [saved EXCEPT ![s] = log] ELSE saved

\* memory.get(config) succeeded
StoreGet ==
    /\ lastOp' = "get"
    /\ UNCHANGED <<store, lastPut, firstPut, saved>>

\* memory.get or memory.put raised: nothing is written
StoreFault ==
    /\ lastOp' = "fault"
    /\ UNCHANGED <<store, lastPut, firstPut, saved>>

Step(p, c) == call' = [call EXCEPT ![p] = c]

\* a call of client p begins; overlapped remembers whether some call has
\* begun while a call of another client was running
Running(q) == call[q].pc \notin {"idle", "done"}
Begin(p) ==
    overlapped' = (overlapped \/ \E q \in Procs \ {p} : Running(q))

(* ----------------------------- save_message ---------------------------- *)

\* the length of the message list a save_message of q on s holds, fetched and
\* not yet written back
FetchedLen(q, s) ==
    IF call[q].pc = "sm_put" /\ call[q].sid = s
    THEN Len(call[q].checkpoint.messages) ELSE 0

InvokeSaveMessage(p, e, S, M) ==
    \E s \in S, m \in M :
        /\ call[p].pc = "idle"
        /\ StoredLen(s) < MaxHist
        /\ Len(saved[s]) < MaxHist
        /\ \A q \in Procs : FetchedLen(q, s) < MaxHist
        /\ Step(p, Start(e, "save_message", "sm_get", s,
                         ChatMessage(m.role, m.content, now), 0))
        /\ UNCHANGED <<store, now, lastOp, lastPut, firstPut, saved, lastDone, req, snapshot>>
        /\ Begin(p)

\* as SaveMessageGet, but a missing session is an error
SaveMessageGetStrict(p, e) ==
    LET c == call[p] IN
    /\ c.pc = "sm_get"
    /\ \E fail \in e.faults :
         IF fail
         THEN Step(p, Raise(c, "get")) /\ StoreFault
         ELSE /\ StoreGet
              /\ IF IsCheckpoint(store[c.sid])
                 THEN Step(p, [c EXCEPT !.pc = "sm_put", !.found = TRUE,
                                        !.checkpoint = store[c.sid]])
                 ELSE Step(p, Raise(c, "missing"))
    /\ UNCHANGED <<now, lastDone, req, overlapped, snapshot>>

\* line 69-70: checkpoint = self.memory.get(config); if not checkpoint
SaveMessageGet(p, e) ==
    LET c == call[p] IN
    /\ c.pc = "sm_get"
    /\ \E fail \in e.faults :
         IF fail
         THEN Step(p, Raise(c, "get")) /\ StoreFault
         ELSE /\ StoreGet
              /\ IF IsCheckpoint(store[c.sid])
                 THEN Step(p, [c EXCEPT !.pc = "sm_put", !.found = TRUE,
                                        !.checkpoint = store[c.sid]])
                 ELSE Step(p, [c EXCEPT !.pc = "sm_create"])
    /\ UNCHANGED <<now, lastDone, req, overlapped, snapshot>>

\* line 72: self.create_session(session_id)
SaveMessageCreate(p, e) ==
    LET c == call[p] IN
    /\ c.pc = "sm_create"
    /\ \E fail \in e.faults :
         IF fail
         THEN Step(p, Raise(c, "create_put")) /\ StoreFault
         ELSE /\ StorePut(e, c.sid, FreshCheckpoint, <<>>)
              /\ Step(p, [c EXCEPT !.pc = "sm_reget"])
    /\ UNCHANGED <<now, lastDone, req, overlapped, snapshot>>

\* line 73: checkpoint = self.memory.get(config)
SaveMessageReget(p, e) ==
    LET c == call[p] IN
    /\ c.pc = "sm_reget"
    /\ \E fail \in e.faults :
         IF fail
         THEN Step(p, Raise(c, "reget")) /\ StoreFault
         ELSE /\ StoreGet
              /\ IF IsCheckpoint(store[c.sid])
                 THEN Step(p, [c EXCEPT !.pc = "sm_put",
                                        !.checkpoint = store[c.sid]])
                 ELSE \* None["channel_values"] raises TypeError at line 76
                      Step(p, Raise(c, "type_error"))
    /\ UNCHANGED <<now, lastDone, req, overlapped, snapshot>>

\* line 75-76: the message is appended to the fetched checkpoint
AppendedCheckpointDroppingMessage(checkpoint, message) == checkpoint

\* mutant of AppendedCheckpoint: the new message replaces the list
AppendedCheckpointReplacing(checkpoint, message) ==
    [checkpoint EXCEPT !.messages = <<_convert_to_langchain_message(message)>>]

AppendedCheckpointInFront(checkpoint, message) ==
    [checkpoint EXCEPT
        !.messages = <<_convert_to_langchain_message(message)>> \o @]

AppendedCheckpoint(checkpoint, message) ==
    [checkpoint EXCEPT
        !.messages = Append(@, _convert_to_langchain_message(message))]

LoggedMessage(message) == [role |-> message.role, content |-> message.content]

\* as SaveMessagePut, but a put that raises has written the record
SaveMessagePutWritesThenFails(p, e) ==
    LET c == call[p]
        updated == AppendedCheckpoint(c.checkpoint, c.msg)
    IN
    /\ c.pc = "sm_put"
    /\ \E fail \in e.faults :
         /\ store' = [store EXCEPT ![c.sid] = updated]
         /\ lastOp' = IF fail THEN "fault" ELSE "put"
         /\ lastPut' = [lastPut EXCEPT ![c.sid] = updated]
         /\ saved' = [saved EXCEPT ![c.sid] = Append(@, LoggedMessage(c.msg))]
         /\ Step(p, IF fail THEN Raise(c, "put") ELSE Finish(c, <<>>))
    /\ UNCHANGED <<now, lastDone, firstPut, req, overlapped, snapshot>>

\* line 75-81: append, new id and ts, self.memory.put(config, checkpoint, {}, {})
SaveMessagePut(p, e) ==
    LET c == call[p]
        updated == AppendedCheckpoint(c.checkpoint, c.msg)
    IN
    /\ c.pc = "sm_put"
    /\ \E fail \in e.faults :
         IF fail
         THEN /\ Step(p, Raise([c EXCEPT !.checkpoint = updated], "put"))
              /\ StoreFault
         ELSE /\ StorePut(e, c.sid, updated,
                          Append(saved[c.sid],
                                 IF e.stamps THEN c.msg ELSE LoggedMessage(c.msg)))
              /\ Step(p, Finish([c EXCEPT !.checkpoint = updated], <<>>))
    /\ UNCHANGED <<now, lastDone, req, overlapped, snapshot>>

(* ---------------------------- create_session --------------------------- *)

InvokeCreateSession(p, e, S) ==
    \E s \in S :
        /\ call[p].pc = "idle"
        /\ Step(p, Start(e, "create_session", "cs_put", s, NoMsg, 0))
        /\ UNCHANGED <<store, now, lastOp, lastPut, firstPut, saved, lastDone, req, snapshot>>
        /\ Begin(p)

\* as CreateSessionPut, but an existing session is left as it is
CreateSessionPutIfAbsent(p, e) ==
    LET c == call[p] IN
    /\ c.pc = "cs_put"
    /\ \E fail \in e.faults :
         IF fail
         THEN Step(p, Raise(c, "put")) /\ StoreFault
         ELSE /\ IF Exists(c.sid)
                 THEN StoreGet
                 ELSE StorePut(e, c.sid, FreshCheckpoint, <<>>)
              /\ Step(p, Finish(c, <<>>))
    /\ UNCHANGED <<now, lastDone, req, overlapped, snapshot>>

\* line 146-160
CreateSessionPut(p, e) ==
    LET c == call[p] IN
    /\ c.pc = "cs_put"
    /\ \E fail \in e.faults :
         IF fail
         THEN Step(p, Raise(c, "put")) /\ StoreFault
         ELSE /\ StorePut(e, c.sid, FreshCheckpoint, <<>>)
              /\ Step(p, Finish([c EXCEPT !.checkpoint = FreshCheckpoint], <<>>))
    /\ UNCHANGED <<now, lastDone, req, overlapped, snapshot>>

(* ----------------------------- clear_session --------------------------- *)

InvokeClearSession(p, e, S) ==
    \E s \in S :
        /\ call[p].pc = "idle"
        /\ Step(p, Start(e, "clear_session", "cl_get", s, NoMsg, 0))
        /\ UNCHANGED <<store, now, lastOp, lastPut, firstPut, saved, lastDone, req, snapshot>>
        /\ Begin(p)

\* as ClearSessionGet, but a missing session is cleared like an existing one
ClearSessionGetCreating(p, e) ==
    LET c == call[p] IN
    /\ c.pc = "cl_get"
    /\ \E fail \in e.faults :
         IF fail
         THEN Step(p, Raise(c, "get")) /\ StoreFault
         ELSE /\ StoreGet
              /\ Step(p, [c EXCEPT !.pc = "cl_put",
                                   !.found = IsCheckpoint(store[c.sid]),
                                   !.checkpoint = IF IsCheckpoint(store[c.sid])
                                                  THEN store[c.sid]
                                                  ELSE FreshCheckpoint])
    /\ UNCHANGED <<now, lastDone, req, overlapped, snapshot>>

\* line 173-175: checkpoint = self.memory.get(config); if checkpoint
ClearSessionGet(p, e) ==
    LET c == call[p] IN
    /\ c.pc = "cl_get"
    /\ \E fail \in e.faults :
         IF fail
         THEN Step(p, Raise(c, "get")) /\ StoreFault
         ELSE /\ StoreGet
              /\ IF IsCheckpoint(store[c.sid])
                 THEN Step(p, [c EXCEPT !.pc = "cl_put", !.found = TRUE,
                                        !.checkpoint = store[c.sid]])
                 ELSE Step(p, Finish(c, <<>>))
    /\ UNCHANGED <<now, lastDone, req, overlapped, snapshot>>

ClearedCheckpointDeletes(checkpoint) == NoCheckpoint

ClearedCheckpointKeepsMessages(checkpoint) == checkpoint

\* line 176
ClearedCheckpoint(checkpoint) == [checkpoint EXCEPT !.messages = <<>>]

\* line 176-179
ClearSessionPut(p, e) ==
    LET c == call[p]
        cleared == ClearedCheckpoint(c.checkpoint)
    IN
    /\ c.pc = "cl_put"
    /\ \E fail \in e.faults :
         IF fail
         THEN /\ Step(p, Raise([c EXCEPT !.checkpoint = cleared], "put"))
              /\ StoreFault
         ELSE /\ StorePut(e, c.sid, cleared, <<>>)
              /\ Step(p, Finish([c EXCEPT !.checkpoint = cleared], <<>>))
    /\ UNCHANGED <<now, lastDone, req, overlapped, snapshot>>

(* ----------------------------- session_exists -------------------------- *)

InvokeSessionExists(p, e, S) ==
    \E s \in S :
        /\ call[p].pc = "idle"
        /\ Step(p, Start(e, "session_exists", "se_get", s, NoMsg, 0))
        /\ UNCHANGED <<store, now, lastOp, lastPut, firstPut, saved, lastDone, req, snapshot>>
        /\ Begin(p)

\* mutant of SessionExistsResult: the record is looked up under a
\* wrong key and never found
SessionExistsResultNever(checkpoint, fail) == FALSE

\* mutant of SessionExistsResult: a session counts as existing only once
\* it holds a message
SessionExistsResultNonEmpty(checkpoint, fail) ==
    ~fail /\ IsCheckpoint(checkpoint) /\ Len(checkpoint.messages) > 0

\* line 194-201: checkpoint is not None; False when the store read raises
SessionExistsResult(checkpoint, fail) ==
    IF fail THEN FALSE ELSE IsCheckpoint(checkpoint)

SessionExistsGet(p, e) ==
    LET c == call[p] IN
    /\ c.pc = "se_get"
    /\ \E fail \in e.faults :
         /\ IF fail THEN StoreFault ELSE StoreGet
         /\ Step(p, Finish([c EXCEPT !.fault = IF fail THEN "get" ELSE "none",
                                     !.found = IsCheckpoint(store[c.sid])],
                           SessionExistsResult(store[c.sid], fail)))
    /\ UNCHANGED <<now, lastDone, req, overlapped, snapshot>>

(* ---------------------------- get_chat_history ------------------------- *)

InvokeGetChatHistory(p, e, S) ==
    \E s \in S :
        /\ call[p].pc = "idle"
        /\ Step(p, Start(e, "get_chat_history", "gh_get", s, NoMsg, 0))
        /\ UNCHANGED <<store, now, lastOp, lastPut, firstPut, saved, lastDone, req, snapshot>>
        /\ Begin(p)

\* line 96-108: [] when the checkpoint is None or the store read raises
ChatHistoryResult(checkpoint, fail, t) ==
    IF fail THEN <<>>
    ELSE IF ~IsCheckpoint(checkpoint) THEN <<>>
    ELSE HistoryOf(checkpoint, t)

GetChatHistoryGet(p, e) ==
    LET c == call[p] IN
    /\ c.pc = "gh_get"
    /\ \E fail \in e.faults :
         /\ IF fail THEN StoreFault ELSE StoreGet
         /\ Step(p, Finish([c EXCEPT !.fault = IF fail THEN "get" ELSE "none",
                                     !.found = IsCheckpoint(store[c.sid])],
                           ChatHistoryResult(store[c.sid], fail, now)))
    /\ UNCHANGED <<now, lastDone, req, overlapped, snapshot>>

(* ------------------------ get_conversation_context --------------------- *)

InvokeGetConversationContext(p, e, S) ==
    \E s \in S, k \in 0..MaxK :
        /\ call[p].pc = "idle"
        /\ Step(p, Start(e, "get_conversation_context", "gc_get", s, NoMsg, k))
        /\ UNCHANGED <<store, now, lastOp, lastPut, firstPut, saved, lastDone, req, snapshot>>
        /\ Begin(p)

\* line 120-131
ConversationContextResult(checkpoint, fail, t, max_messages) ==
    ContextOf(RecentMessages(ChatHistoryResult(checkpoint, fail, t), max_messages))

GetConversationContextGet(p, e) ==
    LET c == call[p] IN
    /\ c.pc = "gc_get"
    /\ \E fail \in e.faults :
         /\ IF fail THEN StoreFault ELSE StoreGet
         /\ Step(p, Finish([c EXCEPT !.fault = IF fail THEN "get" ELSE "none",
                                     !.found = IsCheckpoint(store[c.sid])],
                           ConversationContextResult(store[c.sid], fail, now, c.k)))
    /\ UNCHANGED <<now, lastDone, req, overlapped, snapshot>>

(* ---------------------------- get_session_info ------------------------- *)

InvokeGetSessionInfo(p, e, S) ==
    \E s \in S :
        /\ call[p].pc = "idle"
        /\ Step(p, Start(e, "get_session_info", "gi_exists", s, NoMsg, 0))
        /\ UNCHANGED <<store, now, lastOp, lastPut, firstPut, saved, lastDone, req, snapshot>>
        /\ Begin(p)

\* line 213-214: if not self.session_exists(session_id): return None
GetSessionInfoExists(p, e) ==
    LET c == call[p] IN
    /\ c.pc = "gi_exists"
    /\ \E fail \in e.faults :
         /\ IF fail THEN StoreFault ELSE StoreGet
         /\ IF SessionExistsResult(store[c.sid], fail)
            THEN Step(p, [c EXCEPT !.pc = "gi_hist", !.found = TRUE])
            ELSE Step(p, Finish([c EXCEPT !.fault = IF fail THEN "exists" ELSE "none"],
                                NoInfo))
    /\ UNCHANGED <<now, lastDone, req, overlapped, snapshot>>

Timestamps(messages) == [i \in 1..Len(messages) |-> messages[i].timestamp]

\* mutant of SessionInfoOf: message_count counts the exchanges, two
\* messages each
SessionInfoOfCountingExchanges(session_id, messages, t) ==
    IF messages = <<>>
    THEN SessionInfo(session_id, t, t, 0)
    ELSE SessionInfo(session_id, SeqMin(Timestamps(messages)),
                     SeqMax(Timestamps(messages)), Len(messages) \div 2)

\* line 218-231
SessionInfoOf(session_id, messages, t) ==
    IF messages = <<>>
    THEN SessionInfo(session_id, t, t, 0)
    ELSE SessionInfo(session_id, SeqMin(Timestamps(messages)),
                     SeqMax(Timestamps(messages)), Len(messages))

\* line 216-231: messages = self.get_chat_history(session_id)
GetSessionInfoHistory(p, e) ==
    LET c == call[p] IN
    /\ c.pc = "gi_hist"
    /\ \E fail \in e.faults :
         /\ IF fail THEN StoreFault ELSE StoreGet
         /\ Step(p, Finish([c EXCEPT !.fault = IF fail THEN "hist" ELSE "none"],
                           SessionInfoOf(c.sid,
                                         ChatHistoryResult(store[c.sid], fail, now),
                                         now)))
    /\ UNCHANGED <<now, lastDone, req, overlapped, snapshot>>

(* ------------------------------- clients ------------------------------- *)

\* the caller takes the result (or the exception) of its finished call
Return(p, e) ==
    LET c == call[p] IN
    /\ c.pc = "done"
    /\ call' = [call EXCEPT ![p] = Idle]
    /\ lastDone' =
         IF ~e.track THEN lastDone
         ELSE IF c.status = "ok" /\ c.op \in {"create_session", "clear_session"}
              THEN [op |-> c.op, sid |-> c.sid, found |-> c.found]
              ELSE NoneDone
    /\ UNCHANGED <<store, now, lastOp, lastPut, firstPut, saved, req, overlapped, snapshot>>

\* time passes
Tick ==
    /\ now < MaxNow
    /\ now' = now + 1
    /\ UNCHANGED <<store, call, lastOp, lastPut, firstPut, saved, lastDone, req, overlapped, snapshot>>

(* ------------------------------ HTTP handlers -------------------------- *)

\* default of get_conversation_context's max_messages
DefaultMaxMessages == 10

ChatTexts == {"a"}

\* the frame of handler h on session sid, about to make its first step hpc
Request(h, hpc, sid) ==
    [NoRequest EXCEPT !.h = h, !.hpc = hpc, !.sid = sid,
                      !.events = <<hpc>>, !.preStore = store]

\* a request arrives: the handler starts with its first service call c
Arrive(p, r, c) ==
    /\ req[p].h = "none"
    /\ call[p].pc = "idle"
    /\ req' = [req EXCEPT ![p] = r]
    /\ Step(p, c)
    /\ UNCHANGED <<store, now, lastOp, lastPut, firstPut, saved, lastDone, overlapped, snapshot>>

\* the service call of step hpc of handler h has returned or raised
Returned(p, h, hpc) ==
    /\ req[p].h = h
    /\ req[p].hpc = hpc
    /\ call[p].pc = "done"

\* r with the outcome of the finished service call c noted
Noted(r, c) ==
    [r EXCEPT !.failed = @ \/ c.fault \notin {"none", "type_error"}]

\* the handler goes on with service call c as its step hpc
Proceed(p, r, hpc, c) ==
    /\ req' = [req EXCEPT ![p] = [r EXCEPT !.hpc = hpc,
                                            !.events = Append(@, hpc)]]
    /\ Step(p, c)
    /\ UNCHANGED <<store, now, lastOp, lastPut, firstPut, saved, lastDone, overlapped, snapshot>>

\* the handler answers with the status code
Respond(p, r, status) ==
    /\ req' = [req EXCEPT ![p] = [r EXCEPT !.hpc = "done", !.status = status]]
    /\ Step(p, Idle)
    /\ UNCHANGED <<store, now, lastOp, lastPut, firstPut, saved, lastDone, overlapped, snapshot>>

\* the response has been sent
RequestDone(p) ==
    /\ req[p].hpc = "done"
    /\ req' = [req EXCEPT ![p] = NoRequest]
    /\ UNCHANGED <<store, call, now, lastOp, lastPut, firstPut, saved, lastDone, overlapped, snapshot>>

SessionExistsCall(e, sid) == Start(e, "session_exists", "se_get", sid, NoMsg, 0)
CreateSessionCall(e, sid) == Start(e, "create_session", "cs_put", sid, NoMsg, 0)
SaveMessageCall(e, sid, role, content) ==
    Start(e, "save_message", "sm_get", sid, ChatMessage(role, content, now), 0)

\* str(e) of the OpenAIError the provider call raised
ErrorText == "e"

\* llm_functions.py line 82-92: the detail of the HTTPException(500) that
\* generate_response raises.  The HTTPException for a completion without
\* content is raised inside the try block, so "except Exception" catches
\* it and wraps its str(), "500: Empty response from API"
LlmErrorDetail(outcome) ==
    IF outcome = "error" THEN "NVIDIA API error: " \o ErrorText
    ELSE "Unexpected error: " \o "500: " \o "Empty response from API"

\* the detail of the 500 a handler answers with when generate_response
\* raised: chat wraps str(e) (routes.py line 53-55), upload re-raises the
\* HTTPException as it is (line 101-102)
HandlerErrorDetail(h, detail) ==
    IF h = "chat" THEN "500: " \o detail ELSE detail

\* mutant of Generate: after a failed provider call an empty assistant
\* message is saved and the handler goes on
GenerateSavesApology(p, e, r, formatted) ==
    \E outcome \in ProviderOutcomes :
        LET asked == [r EXCEPT !.sent = formatted,
                               !.events = Append(@, "provider")]
        IN IF outcome = "text"
           THEN Proceed(p, [asked EXCEPT !.reply = ReplyText], "save_assistant",
                        SaveMessageCall(e, r.sid, "assistant", ReplyText))
           ELSE Proceed(p, [asked EXCEPT
                              !.detail = HandlerErrorDetail(r.h, LlmErrorDetail(outcome))],
                        "save_assistant",
                        SaveMessageCall(e, r.sid, "assistant", ""))

\* mutant of Generate: a failed provider call is made once more before
\* the handler gives up
GenerateRetries(p, e, r, formatted) ==
    \E outcome \in ProviderOutcomes :
        LET asked == [r EXCEPT !.sent = formatted,
                               !.events = Append(@, "provider")]
        IN IF outcome = "text"
           THEN Proceed(p, [asked EXCEPT !.reply = ReplyText], "save_assistant",
                        SaveMessageCall(e, r.sid, "assistant", ReplyText))
           ELSE Respond(p, [asked EXCEPT
                              !.events = Append(@, "provider"),
                              !.detail = HandlerErrorDetail(r.h, LlmErrorDetail(outcome))],
                        500)

\* the provider is called with the formatted messages and answers; with a
\* text the handler goes on to save it as the assistant message, else
\* generate_response raises HTTPException(500)
Generate(p, e, r, formatted) ==
    \E outcome \in ProviderOutcomes :
        LET asked == [r EXCEPT !.sent = formatted,
                               !.events = Append(@, "provider")]
        IN IF outcome = "text"
           THEN Proceed(p, [asked EXCEPT !.reply = ReplyText], "save_assistant",
                        SaveMessageCall(e, r.sid, "assistant", ReplyText))
           ELSE Respond(p, [asked EXCEPT
                              !.detail = HandlerErrorDetail(r.h, LlmErrorDetail(outcome))],
                        500)

(* POST /api/chat, routes.py line 24-55 *)

\* line 28: memory_service.session_exists(request.session_id)
ChatRequest(p, e, S, T) ==
    \E s \in S, t \in T :
        /\ StoredLen(s) < MaxHist
        /\ Arrive(p, [Request("chat", "exists", s) EXCEPT !.message = t],
                  SessionExistsCall(e, s))

\* mutant of ChatEnsured: the session is created anew on every request
ChatEnsuredAlwaysCreates(p, e) ==
    LET r == Noted(req[p], call[p]) IN
    /\ Returned(p, "chat", "exists")
    /\ Proceed(p, r, "create", CreateSessionCall(e, r.sid))

\* line 28-36: create the session when it does not exist, else save the
\* user message
ChatEnsured(p, e) ==
    LET r == Noted(req[p], call[p]) IN
    /\ Returned(p, "chat", "exists")
    /\ IF call[p].ret
       THEN Proceed(p, r, "save_user", SaveMessageCall(e, r.sid, "user", r.message))
       ELSE Proceed(p, r, "create", CreateSessionCall(e, r.sid))

\* line 29-36: after create_session, save the user message
ChatCreated(p, e) ==
    LET r == Noted(req[p], call[p]) IN
    /\ Returned(p, "chat", "create")
    /\ IF call[p].status = "raised"
       THEN Respond(p, r, 500)
       ELSE Proceed(p, r, "save_user", SaveMessageCall(e, r.sid, "user", r.message))

\* line 36-37: after save_message, read the conversation context
ChatUserSaved(p, e) ==
    LET r == Noted(req[p], call[p]) IN
    /\ Returned(p, "chat", "save_user")
    /\ IF call[p].status = "raised"
       THEN Respond(p, r, 500)
       ELSE Proceed(p, r, "context",
                    Start(e, "get_conversation_context", "gc_get", r.sid, NoMsg,
                          DefaultMaxMessages))

\* mutant of ChatGenerate: the assistant message is saved whatever the
\* provider answered
ChatGenerateSavesAnyway(p, e) ==
    LET r == Noted(req[p], call[p]) IN
    /\ Returned(p, "chat", "context")
    /\ Proceed(p, [r EXCEPT !.sent = FormattedMessages(call[p].ret, None),
                            !.events = Append(@, "provider")],
               "save_assistant", SaveMessageCall(e, r.sid, "assistant", ""))

\* line 37-45: llm_service.generate_response(context), then save the
\* assistant message
ChatGenerate(p, e) ==
    LET r == Noted(req[p], call[p]) IN
    /\ Returned(p, "chat", "context")
    /\ Generate(p, e, r, FormattedMessages(call[p].ret, None))

\* line 45-55: after the second save_message, the response
ChatAssistantSaved(p, e) ==
    LET r == Noted(req[p], call[p]) IN
    /\ Returned(p, "chat", "save_assistant")
    /\ IF call[p].status = "raised"
       THEN Respond(p, r, 500)
       ELSE Respond(p, r, 200)

(* POST /api/upload, routes.py line 58-105 *)

\* line 66-69: a request without session_id gets a uuid4, an id no
\* session of the store has
UploadRequest(p, e, S, F, Q) ==
    \E s \in S, given \in BOOLEAN, file \in F, question \in Q :
        /\ StoredLen(s) < MaxHist
        /\ given \/ ~Exists(s)
        /\ Arrive(p, [Request("upload", "exists", s) EXCEPT
                        !.given = given, !.file = file, !.message = question],
                  SessionExistsCall(e, s))

\* mutant of UploadEnsured: the session is not created before the file is
\* validated
UploadEnsuredWithoutCreate(p, e) ==
    LET r == Noted(req[p], call[p]) IN
    /\ Returned(p, "upload", "exists")
    /\ req' = [req EXCEPT ![p] = [r EXCEPT !.hpc = "extract"]]
    /\ Step(p, Idle)
    /\ UNCHANGED <<store, now, lastOp, lastPut, firstPut, saved, lastDone, overlapped, snapshot>>

\* line 69-70
UploadEnsured(p, e) ==
    LET r == Noted(req[p], call[p]) IN
    /\ Returned(p, "upload", "exists")
    /\ IF call[p].ret
       THEN /\ req' = [req EXCEPT ![p] = [r EXCEPT !.hpc = "extract"]]
            /\ Step(p, Idle)
            /\ UNCHANGED <<store, now, lastOp, lastPut, firstPut, saved, lastDone, overlapped, snapshot>>
       ELSE Proceed(p, r, "create", CreateSessionCall(e, r.sid))

\* line 70
UploadCreated(p, e) ==
    LET r == Noted(req[p], call[p]) IN
    /\ Returned(p, "upload", "create")
    /\ IF call[p].status = "raised"
       THEN Respond(p, r, 500)
       ELSE /\ req' = [req EXCEPT ![p] = [r EXCEPT !.hpc = "extract"]]
            /\ Step(p, Idle)
            /\ UNCHANGED <<store, now, lastOp, lastPut, firstPut, saved, lastDone, overlapped, snapshot>>

\* the content of the user message of an upload
UploadedContent(filename, question) ==
    "[Uploaded file: " \o filename \o "] " \o question

\* mutant of UploadExtract: a text that is empty once stripped is not
\* rejected
UploadExtractKeepsEmpty(p, e) ==
    LET r == req[p]
        x == extract_text(r.file)
        tried == [r EXCEPT !.events =
                     @ \o (IF x.read THEN <<"validate", "extract">>
                           ELSE <<"validate">>)]
    IN /\ r.h = "upload"
       /\ r.hpc = "extract"
       /\ IF x.status = 400 THEN Respond(p, tried, 400)
          ELSE Proceed(p, [tried EXCEPT
                             !.text = truncate_context(x.text, MaxContextLength)],
                       "save_user",
                       SaveMessageCall(e, r.sid, "user",
                                       UploadedContent(r.file.filename, r.message)))

\* line 72-84: extract the text, reject an empty one, truncate it and save
\* the user message
UploadExtract(p, e) ==
    LET r == req[p]
        x == extract_text(r.file)
        tried == [r EXCEPT !.events =
                     @ \o (IF x.read THEN <<"validate", "extract">>
                           ELSE <<"validate">>)]
    IN /\ r.h = "upload"
       /\ r.hpc = "extract"
       /\ IF x.status = 400 THEN Respond(p, tried, 400)
          ELSE IF Strip(x.text) = "" THEN Respond(p, tried, 400)
          ELSE Proceed(p, [tried EXCEPT
                             !.text = truncate_context(x.text, MaxContextLength)],
                       "save_user",
                       SaveMessageCall(e, r.sid, "user",
                                       UploadedContent(r.file.filename, r.message)))

\* line 84-92: generate_context_response(truncated_context, question)
UploadUserSaved(p, e) ==
    LET r == Noted(req[p], call[p]) IN
    /\ Returned(p, "upload", "save_user")
    /\ IF call[p].status = "raised"
       THEN Respond(p, r, 500)
       ELSE Generate(p, e, r,
                     FormattedMessages(ContextQuestionMessages(r.text, r.message),
                                       None))

\* line 92-105
UploadAssistantSaved(p, e) ==
    LET r == Noted(req[p], call[p]) IN
    /\ Returned(p, "upload", "save_assistant")
    /\ IF call[p].status = "raised"
       THEN Respond(p, r, 500)
       ELSE Respond(p, r, 200)

(* GET /api/sessions/{session_id}/history, routes.py line 108-131 *)

HistoryRequest(p, e, S) ==
    \E s \in S :
        /\ req[p].h = "none"
        /\ Arrive(p, Request("history", "exists", s), SessionExistsCall(e, s))

\* line 112-115
HistoryChecked(p, e) ==
    LET r == Noted(req[p], call[p]) IN
    /\ Returned(p, "history", "exists")
    /\ IF ~call[p].ret
       THEN Respond(p, r, 404)
       ELSE Proceed(p, r, "history",
                    Start(e, "get_chat_history", "gh_get", r.sid, NoMsg, 0))

\* line 115-116
HistoryRead(p, e) ==
    LET r == Noted(req[p], call[p]) IN
    /\ Returned(p, "history", "history")
    /\ Proceed(p, [r EXCEPT !.messages = call[p].ret], "info",
               Start(e, "get_session_info", "gi_exists", r.sid, NoMsg, 0))

\* line 116-125: ChatHistory(session_id, messages, session_info)
HistoryInfo(p, e) ==
    LET r == Noted(req[p], call[p]) IN
    /\ Returned(p, "history", "info")
    /\ IF call[p].ret = NoInfo
       THEN Respond(p, r, 404)
       ELSE Respond(p, [r EXCEPT !.info = call[p].ret], 200)

(* POST /api/sessions/{session_id}/clear, routes.py line 134-149 *)

ClearRequest(p, e, S) ==
    \E s \in S :
        /\ req[p].h = "none"
        /\ Arrive(p, Request("clear", "exists", s), SessionExistsCall(e, s))

\* mutant of ClearChecked: an unknown session is created instead of
\* being answered 404
ClearCheckedCreates(p, e) ==
    LET r == Noted(req[p], call[p]) IN
    /\ Returned(p, "clear", "exists")
    /\ IF ~call[p].ret
       THEN Proceed(p, r, "clear", CreateSessionCall(e, r.sid))
       ELSE Proceed(p, r, "clear",
                    Start(e, "clear_session", "cl_get", r.sid, NoMsg, 0))

\* line 138-141
ClearChecked(p, e) ==
    LET r == Noted(req[p], call[p]) IN
    /\ Returned(p, "clear", "exists")
    /\ IF ~call[p].ret
       THEN Respond(p, r, 404)
       ELSE Proceed(p, r, "clear",
                    Start(e, "clear_session", "cl_get", r.sid, NoMsg, 0))

\* line 141-149
ClearCleared(p, e) ==
    LET r == Noted(req[p], call[p]) IN
    /\ Returned(p, "clear", "clear")
    /\ IF call[p].status = "raised"
       THEN Respond(p, r, 500)
       ELSE Respond(p, r, 200)

(* POST /api/sessions/new, routes.py line 152-163 *)

\* line 156-157: a uuid4, an id no session of the store has
NewSessionRequest(p, e, S) ==
    \E s \in S :
        /\ ~Exists(s)
        /\ Arrive(p, [Request("new", "create", s) EXCEPT !.given = FALSE],
                  CreateSessionCall(e, s))

\* line 157-163
NewSessionCreated(p, e) ==
    LET r == Noted(req[p], call[p]) IN
    /\ Returned(p, "new", "create")
    /\ IF call[p].status = "raised"
       THEN Respond(p, r, 500)
       ELSE Respond(p, r, 200)

(* GET /api/sessions/{session_id}/info, routes.py line 166-181 *)

InfoRequest(p, e, S) ==
    \E s \in S :
        /\ req[p].h = "none"
        /\ Arrive(p, Request("info", "info", s),
                  Start(e, "get_session_info", "gi_exists", s, NoMsg, 0))

\* line 170-175
InfoRead(p, e) ==
    LET r == Noted(req[p], call[p]) IN
    /\ Returned(p, "info", "info")
    /\ IF call[p].ret = NoInfo
       THEN Respond(p, r, 404)
       ELSE Respond(p, [r EXCEPT !.info = call[p].ret], 200)

(* --------------------------- LLMService calls -------------------------- *)

ChatTurns == {Turn("user", "a"), Turn("assistant", "b"), Turn("user", "q")}
Conversations == UNION {[1..n -> ChatTurns] : n \in 0..MaxHist}
Contexts == {None, Some(""), Some("de")}
ContextTexts == {"", "de"}

\* llm_functions.py line 45-72: generate_response(messages, context) has
\* built formatted_messages and calls the provider
GenerateResponseCall(p, M, C) ==
    \E messages \in M, context \in C :
        /\ req[p].h = "none"
        /\ req' = [req EXCEPT ![p] =
                     [NoRequest EXCEPT
                        !.h = "generate_response", !.hpc = "provider",
                        !.messages = messages, !.context = context,
                        !.sent = FormattedMessages(messages, context),
                        !.events = <<"provider">>]]
        /\ UNCHANGED <<store, call, now, lastOp, lastPut, firstPut, saved, lastDone, overlapped, snapshot>>

\* line 94-110: generate_context_response(context, question) calls
\* generate_response(messages)
GenerateContextResponseCall(p, T, Q) ==
    \E text \in T, question \in Q :
        /\ req[p].h = "none"
        /\ req' = [req EXCEPT ![p] =
                     [NoRequest EXCEPT
                        !.h = "generate_context_response", !.hpc = "provider",
                        !.text = text, !.message = question,
                        !.sent = FormattedMessages(
                                     ContextQuestionMessages(text, question), None),
                        !.events = <<"provider">>]]
        /\ UNCHANGED <<store, call, now, lastOp, lastPut, firstPut, saved, lastDone, overlapped, snapshot>>

\* line 74-92: the content of the completion is returned; a completion
\* without content and an OpenAIError end in HTTPException(500)
ProviderAnswers(p) ==
    /\ req[p].h \in {"generate_response", "generate_context_response"}
    /\ req[p].hpc = "provider"
    /\ \E outcome \in ProviderOutcomes :
         req' = [req EXCEPT ![p] =
                   IF outcome = "text"
                   THEN [@ EXCEPT !.hpc = "done", !.status = 200, !.reply = ReplyText]
                   ELSE [@ EXCEPT !.hpc = "done", !.status = 500,
                                  !.detail = LlmErrorDetail(outcome)]]
    /\ UNCHANGED <<store, call, now, lastOp, lastPut, firstPut, saved, lastDone, overlapped, snapshot>>

Next ==
    \/ \E p \in SeqClients :
        \/ InvokeSaveMessage(p, SeqEnv, Sessions, MessageInputs)
        \/ SaveMessageGet(p, SeqEnv)
        \/ SaveMessageCreate(p, SeqEnv)
        \/ SaveMessageReget(p, SeqEnv)
        \/ SaveMessagePut(p, SeqEnv)
        \/ InvokeCreateSession(p, SeqEnv, Sessions)
        \/ CreateSessionPut(p, SeqEnv)
        \/ InvokeClearSession(p, SeqEnv, Sessions)
        \/ ClearSessionGet(p, SeqEnv)
        \/ ClearSessionPut(p, SeqEnv)
        \/ InvokeSessionExists(p, SeqEnv, Sessions)
        \/ SessionExistsGet(p, SeqEnv)
        \/ InvokeGetChatHistory(p, SeqEnv, Sessions)
        \/ GetChatHistoryGet(p, SeqEnv)
        \/ InvokeGetConversationContext(p, SeqEnv, Sessions)
        \/ GetConversationContextGet(p, SeqEnv)
        \/ InvokeGetSessionInfo(p, SeqEnv, Sessions)
        \/ GetSessionInfoExists(p, SeqEnv)
        \/ GetSessionInfoHistory(p, SeqEnv)
        \/ Return(p, SeqEnv)
    \/ Tick

\* one client; its calls run one after the other
Spec == Init /\ [][Next]_vars

NextConc ==
    \E p \in Procs :
        \/ InvokeSaveMessage(p, ConcEnv, ConcSessions, ChatInputs)
        \/ SaveMessageGet(p, ConcEnv)
        \/ SaveMessageCreate(p, ConcEnv)
        \/ SaveMessageReget(p, ConcEnv)
        \/ SaveMessagePut(p, ConcEnv)
        \/ InvokeCreateSession(p, ConcEnv, ConcSessions)
        \/ CreateSessionPut(p, ConcEnv)
        \/ InvokeClearSession(p, ConcEnv, ConcSessions)
        \/ ClearSessionGet(p, ConcEnv)
        \/ ClearSessionPut(p, ConcEnv)
        \/ InvokeGetChatHistory(p, ConcEnv, ConcSessions)
        \/ GetChatHistoryGet(p, ConcEnv)
        \/ Return(p, ConcEnv)

\* two clients on one session; their store accesses interleave
SpecConc == Init /\ [][NextConc]_vars

NextHttp ==
    \E p \in SeqClients :
        \/ ChatRequest(p, HttpEnv, Sessions, ChatTexts)
        \/ ChatEnsured(p, HttpEnv)
        \/ ChatCreated(p, HttpEnv)
        \/ ChatUserSaved(p, HttpEnv)
        \/ ChatGenerate(p, HttpEnv)
        \/ ChatAssistantSaved(p, HttpEnv)
        \/ UploadRequest(p, HttpEnv, ConcSessions, UploadFiles, Questions)
        \/ UploadEnsured(p, HttpEnv)
        \/ UploadCreated(p, HttpEnv)
        \/ UploadExtract(p, HttpEnv)
        \/ UploadUserSaved(p, HttpEnv)
        \/ UploadAssistantSaved(p, HttpEnv)
        \/ HistoryRequest(p, HttpEnv, Sessions)
        \/ HistoryChecked(p, HttpEnv)
        \/ HistoryRead(p, HttpEnv)
        \/ HistoryInfo(p, HttpEnv)
        \/ ClearRequest(p, HttpEnv, Sessions)
        \/ ClearChecked(p, HttpEnv)
        \/ ClearCleared(p, HttpEnv)
        \/ NewSessionRequest(p, HttpEnv, Sessions)
        \/ NewSessionCreated(p, HttpEnv)
        \/ InfoRequest(p, HttpEnv, Sessions)
        \/ InfoRead(p, HttpEnv)
        \/ RequestDone(p)
        \/ SaveMessageGet(p, HttpEnv)
        \/ SaveMessagePut(p, HttpEnv)
        \/ CreateSessionPut(p, HttpEnv)
        \/ ClearSessionGet(p, HttpEnv)
        \/ ClearSessionPut(p, HttpEnv)
        \/ SessionExistsGet(p, HttpEnv)
        \/ GetChatHistoryGet(p, HttpEnv)
        \/ GetConversationContextGet(p, HttpEnv)
        \/ GetSessionInfoExists(p, HttpEnv)
        \/ GetSessionInfoHistory(p, HttpEnv)

\* one client sending HTTP requests one after the other; every store
\* access of a handler may raise.  save_message finds the session each
\* time here (chat and upload ensure it first), so its create branch
\* takes no step
SpecHttp == Init /\ [][NextHttp]_vars

NextLlm ==
    \E p \in SeqClients :
        \/ GenerateResponseCall(p, Conversations, Contexts)
        \/ GenerateContextResponseCall(p, ContextTexts, Questions)
        \/ ProviderAnswers(p)
        \/ RequestDone(p)

\* one caller of the two methods of LLMService
SpecLlm == Init /\ [][NextLlm]_vars

NextLog ==
    \E p \in Procs :
        \/ InvokeSaveMessage(p, LogEnv, ConcSessions, ChatInputs)
        \/ SaveMessageGet(p, LogEnv)
        \/ SaveMessageCreate(p, LogEnv)
        \/ SaveMessageReget(p, LogEnv)
        \/ SaveMessagePut(p, LogEnv)
        \/ InvokeCreateSession(p, LogEnv, ConcSessions)
        \/ CreateSessionPut(p, LogEnv)
        \/ InvokeClearSession(p, LogEnv, ConcSessions)
        \/ ClearSessionGet(p, LogEnv)
        \/ ClearSessionPut(p, LogEnv)
        \/ InvokeGetChatHistory(p, LogEnv, ConcSessions)
        \/ GetChatHistoryGet(p, LogEnv)
        \/ Return(p, LogEnv)

\* two clients on one session, with the log of the messages saved since
\* the last reset kept; the runs in which no call begins while another
\* is running are the sequential executions
SpecLog == Init /\ [][NextLog]_vars

\* the text each of the two clients sends
ClientText == [p \in Procs |-> IF p = "p1" THEN "a" ELSE "c"]

NextChatConc ==
    \E p \in Procs :
        \/ ChatRequest(p, ConcEnv, ConcSessions, {ClientText[p]})
        \/ ChatEnsured(p, ConcEnv)
        \/ ChatCreated(p, ConcEnv)
        \/ ChatUserSaved(p, ConcEnv)
        \/ ChatGenerate(p, ConcEnv)
        \/ ChatAssistantSaved(p, ConcEnv)
        \/ RequestDone(p)
        \/ SessionExistsGet(p, ConcEnv)
        \/ CreateSessionPut(p, ConcEnv)
        \/ SaveMessageGet(p, ConcEnv)
        \/ SaveMessagePut(p, ConcEnv)
        \/ GetConversationContextGet(p, ConcEnv)

\* two clients sending POST /api/chat for one session; the store accesses
\* of the two handlers interleave
SpecChatConc == Init /\ [][NextChatConc]_vars

\* the content of the i-th message of a long conversation: every position
\* has its own text
RECURSIVE Unary(_)
Unary(i) == IF i = 0 THEN "" ELSE "x" \o Unary(i - 1)

\* the stored messages after n saves of earlier chat requests, user and
\* assistant in turn
LongHistory(n) ==
    [i \in 1..n |->
        _convert_to_langchain_message(
            [role |-> IF i % 2 = 1 THEN "user" ELSE "assistant",
             content |-> Unary(i)])]

\* the shared session holds a conversation of 0..MaxLong messages that
\* earlier chat requests saved
InitLong ==
    \E n \in 0..MaxLong :
        LET long == [FreshCheckpoint EXCEPT !.messages = LongHistory(n)] IN
        /\ store = [s \in Sessions |->
                      IF s \in ConcSessions THEN long ELSE NoCheckpoint]
        /\ call = [p \in Procs |-> Idle]
        /\ now = 0
        /\ lastOp = "none"
        /\ lastPut = [s \in Sessions |->
                        IF s \in ConcSessions THEN long ELSE NoCheckpoint]
        /\ firstPut = [s \in Sessions |->
                         IF s \in ConcSessions THEN "empty" ELSE "none"]
        /\ saved = [s \in Sessions |-> <<>>]
        /\ lastDone = NoneDone
        /\ req = [p \in Procs |-> NoRequest]
        /\ overlapped = FALSE
        /\ snapshot = NoSnapshot

\* routes.py line 28: a chat request on a session of up to MaxLong messages
ChatRequestLong(p, e, S, T) ==
    \E s \in S, t \in T :
        /\ StoredLen(s) <= MaxLong
        /\ Arrive(p, [Request("chat", "exists", s) EXCEPT !.message = t],
                  SessionExistsCall(e, s))

NextLong ==
    \E p \in SeqClients :
        \/ ChatRequestLong(p, HttpEnv, ConcSessions, ChatTexts)
        \/ ChatEnsured(p, HttpEnv)
        \/ ChatCreated(p, HttpEnv)
        \/ ChatUserSaved(p, HttpEnv)
        \/ ChatGenerate(p, HttpEnv)
        \/ ChatAssistantSaved(p, HttpEnv)
        \/ RequestDone(p)
        \/ SessionExistsGet(p, HttpEnv)
        \/ CreateSessionPut(p, HttpEnv)
        \/ SaveMessageGet(p, HttpEnv)
        \/ SaveMessagePut(p, HttpEnv)
        \/ GetConversationContextGet(p, HttpEnv)

\* one client sending chat requests one after the other on a session that
\* holds a long conversation; every store access may raise
SpecLong == InitLong /\ [][NextLong]_vars

NextHistoryConc ==
    \/ \E p \in SeqClients :
          \/ HistoryRequest(p, ConcEnv, ConcSessions)
          \/ HistoryChecked(p, ConcEnv)
          \/ HistoryRead(p, ConcEnv)
          \/ HistoryInfo(p, ConcEnv)
          \/ RequestDone(p)
          \/ SessionExistsGet(p, ConcEnv)
          \/ GetChatHistoryGet(p, ConcEnv)
          \/ GetSessionInfoExists(p, ConcEnv)
          \/ GetSessionInfoHistory(p, ConcEnv)
    \/ \E p \in Procs \ SeqClients :
          \/ InvokeSaveMessage(p, ConcEnv, ConcSessions, ChatInputs)
          \/ SaveMessageGet(p, ConcEnv)
          \/ SaveMessageCreate(p, ConcEnv)
          \/ SaveMessageReget(p, ConcEnv)
          \/ SaveMessagePut(p, ConcEnv)
          \/ InvokeClearSession(p, ConcEnv, ConcSessions)
          \/ ClearSessionGet(p, ConcEnv)
          \/ ClearSessionPut(p, ConcEnv)
          \/ Return(p, ConcEnv)

\* one client asking for the history of the shared session while another
\* process, working on the same store, saves messages to it and clears
\* it; the store accesses of the two interleave freely
SpecHistoryConc == Init /\ [][NextHistoryConc]_vars

(* --------------------- the approval graph, tempfile2.py ---------------- *)

\* the thread holds at most MaxMessages messages when a question is asked
\* or the model is called
MaxMessages == 5

\* what the user types at "Your response: " (line 107)
Responses == {"yes", " YES\n", "no", "No ", "", "maybe", "yes no"}

\* the messages of the State: a HumanMessage, an AIMessage with or without
\* tool calls, a ToolMessage
HumanMessage == [type |-> "human", tool_calls |-> FALSE]
AIMessage(tool_calls) == [type |-> "ai", tool_calls |-> tool_calls]
ToolMessage == [type |-> "tool", tool_calls |-> FALSE]

\* line 45: hasattr(last_message, "tool_calls") and last_message.tool_calls
HasToolCalls(message) == message.type = "ai" /\ message.tool_calls

ApprovalPrompt == "Assistant wants to use a search tool. Approve? (yes/no): "

\* mutant of ApprovalCommand: the response is compared as it was typed
ApprovalCommandExact(human_response) ==
    IF human_response # "" /\ human_response = "yes"
    THEN [goto |-> "tools", approved |-> TRUE]
    ELSE IF human_response # "" /\ human_response = "no"
    THEN [goto |-> "none", approved |-> FALSE]
    ELSE [goto |-> "need_approval", approved |-> FALSE]

\* line 51-67: the Command need_approval returns for a human response;
\* goto "none" is END
ApprovalCommand(human_response) ==
    IF human_response # "" /\ Strip(Lower(human_response)) = "yes"
    THEN [goto |-> "tools", approved |-> TRUE]
    ELSE IF human_response # "" /\ Strip(Lower(human_response)) = "no"
    THEN [goto |-> "none", approved |-> FALSE]
    ELSE [goto |-> "need_approval", approved |-> FALSE]

chatVars == <<store, call, now, lastOp, lastPut, firstPut, saved, lastDone, req,
              overlapped>>

\* line 91-101: run_with reads a question and streams the graph from START
\* with the initial state; add_messages appends the user message to the
\* messages of the thread
Question ==
    /\ ~snapshot.streaming
    /\ snapshot.interrupts = <<>>
    /\ Len(snapshot.messages) < MaxMessages
    /\ snapshot' = [snapshot EXCEPT !.messages = Append(@, HumanMessage),
                                    !.approved = FALSE,
                                    !.next = "chatbot",
                                    !.resume = None,
                                    !.streaming = TRUE]
    /\ UNCHANGED chatVars

\* line 38-41 and the edge chatbot -> need_approval (line 77): the model
\* answers with or without tool calls
chatbot ==
    /\ snapshot.streaming
    /\ snapshot.next = "chatbot"
    /\ Len(snapshot.messages) < MaxMessages
    /\ \E tool_calls \in BOOLEAN :
         snapshot' = [snapshot EXCEPT !.messages = Append(@, AIMessage(tool_calls)),
                                      !.next = "need_approval"]
    /\ UNCHANGED chatVars

\* line 40, 118-131: llm_with_tools.invoke raises; the stream call ends
\* with the exception, the thread keeps its last checkpoint and run_with
\* goes on to the next question
ChatbotRaises ==
    /\ snapshot.streaming
    /\ snapshot.next = "chatbot"
    /\ snapshot' = [snapshot EXCEPT !.streaming = FALSE]
    /\ UNCHANGED chatVars

\* line 43-69: without tool calls in the last message the run ends; with
\* tool calls and no resume value interrupt() pauses the run before the
\* node has done anything; with a resume value the node, run again from
\* its start, gets it from interrupt() and returns the Command for it
need_approval ==
    LET last_message == snapshot.messages[Len(snapshot.messages)] IN
    /\ snapshot.streaming
    /\ snapshot.next = "need_approval"
    /\ snapshot' =
         IF ~HasToolCalls(last_message)
         THEN [snapshot EXCEPT !.next = "none", !.streaming = FALSE]
         ELSE IF snapshot.resume = None
         THEN [snapshot EXCEPT !.interrupts = <<ApprovalPrompt>>,
                               !.streaming = FALSE]
         ELSE LET command == ApprovalCommand(snapshot.resume[1]) IN
              [snapshot EXCEPT !.resume = None,
                               !.received = snapshot.resume,
                               !.approved = command.approved,
                               !.next = command.goto,
                               !.streaming = command.goto # "none"]
    /\ UNCHANGED chatVars

\* line 104-110: run_with reads the response to the pending interrupt and
\* streams the graph with Command(resume=user_response)
Resume ==
    /\ ~snapshot.streaming
    /\ snapshot.interrupts # <<>>
    /\ \E user_response \in Responses :
         snapshot' = [snapshot EXCEPT !.resume = Some(user_response),
                                      !.interrupts = <<>>,
                                      !.streaming = TRUE]
    /\ UNCHANGED chatVars

\* line 73-74 and the edge tools -> chatbot (line 78): the ToolNode runs
\* the tool calls of the last message and appends the ToolMessage
tool_node ==
    /\ snapshot.streaming
    /\ snapshot.next = "tools"
    /\ snapshot' = [snapshot EXCEPT !.messages = Append(@, ToolMessage),
                                    !.next = "chatbot"]
    /\ UNCHANGED chatVars

NextGraph ==
    \/ Question
    \/ chatbot
    \/ ChatbotRaises
    \/ need_approval
    \/ Resume
    \/ tool_node

\* run_with on its one thread ("6"): questions, the supersteps of the
\* graph, one node each, and the responses to its interrupts
SpecGraph == Init /\ [][NextGraph]_vars

NextTime ==
    \/ \E p \in SeqClients :
        \/ InvokeSaveMessage(p, TimeEnv, ConcSessions, ChatInputs)
        \/ SaveMessageGet(p, TimeEnv)
        \/ SaveMessageCreate(p, TimeEnv)
        \/ SaveMessageReget(p, TimeEnv)
        \/ SaveMessagePut(p, TimeEnv)
        \/ InvokeClearSession(p, TimeEnv, ConcSessions)
        \/ ClearSessionGet(p, TimeEnv)
        \/ ClearSessionPut(p, TimeEnv)
        \/ InvokeGetChatHistory(p, TimeEnv, ConcSessions)
        \/ GetChatHistoryGet(p, TimeEnv)
        \/ InvokeGetSessionInfo(p, TimeEnv, ConcSessions)
        \/ GetSessionInfoExists(p, TimeEnv)
        \/ GetSessionInfoHistory(p, TimeEnv)
        \/ Return(p, TimeEnv)
    \/ Tick

\* one client on one session while the clock advances; the log of saved
\* messages keeps the timestamp each ChatMessage was passed in with
SpecTime == Init /\ [][NextTime]_vars

(* =============================== claims ================================ *)

Done(p, op) == call[p].op = op /\ call[p].pc = "done"

\* the role a stored message is read back with
RoleOfType(type) == IF type = "human" THEN "user" ELSE "assistant"

\* the role/content pairs of a stored message list
PairsOf(messages) ==
    [i \in 1..Len(messages) |->
        [role |-> RoleOfType(messages[i].type), content |-> messages[i].content]]

\* the role/content pairs of the history session s holds (none when s is unknown)
StoredPairs(s) == IF Exists(s) THEN PairsOf(store[s].messages) ELSE <<>>

AllChatRoles(log) == \A i \in 1..Len(log) : log[i].role \in ChatRoles

Min(a, b) == IF a < b THEN a ELSE b

\* the n last elements of seq, 0 <= n <= Len(seq)
LastN(seq, n) == SubSeq(seq, Len(seq) - n + 1, Len(seq))

(* C1: in a sequential run, after N successful save_message calls on a      *)
(* session with roles user/assistant and no create_session or clear_session *)
(* in between, a get_chat_history whose store read succeeds returns exactly *)
(* those N messages, role and content, in call order.                       *)
C1_HistoryIsSavedMessages ==
    \A p \in Procs :
        (Done(p, "get_chat_history") /\ call[p].fault = "none"
            /\ AllChatRoles(saved[call[p].sid]))
        => ContextOf(call[p].ret) = saved[call[p].sid]

C1_Witness ==
    \E p \in Procs :
        /\ Done(p, "get_chat_history") /\ call[p].fault = "none"
        /\ Len(saved[call[p].sid]) = 2
        /\ AllChatRoles(saved[call[p].sid])
        /\ saved[call[p].sid][1] # saved[call[p].sid][2]
        /\ Len(call[p].ret) = 2

(* C2: a session does not exist before the first put of a create_session    *)
(* (called directly or from save_message) for it has completed, exists in   *)
(* every state after it, no step removes it, and a session_exists call      *)
(* whose store read succeeds returns exactly that.                          *)
C2_ExistsFromFirstCreate ==
    /\ [](\A s \in Sessions :
            /\ Exists(s) <=> firstPut[s] # "none"
            /\ firstPut[s] \in {"none", "empty"})
    /\ [](\A p \in Procs :
            (Done(p, "session_exists") /\ call[p].fault = "none")
            => call[p].ret = Exists(call[p].sid))
    /\ [][\A s \in Sessions : Exists(s) => IsCheckpoint(store'[s])]_vars

C2_Witness ==
    \E p \in Procs :
        /\ Done(p, "session_exists") /\ call[p].fault = "none"
        /\ call[p].ret = TRUE
        /\ lastDone.op = "clear_session" /\ lastDone.sid = call[p].sid

(* C3: get_conversation_context(S, k), k >= 0, returns the min(k, length)   *)
(* most recent messages in order, role and content only.  The code returns  *)
(* the whole history for k = 0.                                             *)
C3_ContextIsLastK ==
    \A p \in Procs :
        (Done(p, "get_conversation_context") /\ call[p].fault = "none")
        => call[p].ret =
             LastN(StoredPairs(call[p].sid),
                   Min(call[p].k, Len(StoredPairs(call[p].sid))))

(* C4 as stated: after clear_session(S), whether or not S existed,          *)
(* get_chat_history(S) is empty and get_session_info(S) is a SessionInfo    *)
(* with message_count 0.                                                    *)
C4_Original ==
    \A p \in Procs :
        (lastDone.op = "clear_session" /\ lastDone.sid = call[p].sid)
        => /\ Done(p, "get_chat_history") => call[p].ret = <<>>
           /\ (Done(p, "get_session_info") /\ call[p].fault = "none")
              => (call[p].ret # NoInfo /\ call[p].ret.message_count = 0)

(* C4 amended: after clear_session(S), get_chat_history(S) is empty; when S *)
(* existed, get_session_info(S) is a SessionInfo with message_count 0, and  *)
(* when S did not exist it is None.                                         *)
C4_ClearThenRead ==
    \A p \in Procs :
        (lastDone.op = "clear_session" /\ lastDone.sid = call[p].sid)
        => /\ Done(p, "get_chat_history") => call[p].ret = <<>>
           /\ (Done(p, "get_session_info") /\ call[p].fault = "none")
              => IF lastDone.found
                 THEN call[p].ret # NoInfo /\ call[p].ret.message_count = 0
                 ELSE call[p].ret = NoInfo

C4_Witness ==
    \E p \in Procs :
        /\ lastDone.op = "clear_session" /\ lastDone.sid = call[p].sid
        /\ lastDone.found
        /\ Done(p, "get_session_info") /\ call[p].fault = "none"
        /\ call[p].ret # NoInfo

SameSession(a, b) ==
    /\ IsCheckpoint(a) = IsCheckpoint(b)
    /\ IsCheckpoint(a) => a.messages = b.messages

MessagesOf(checkpoint) ==
    IF IsCheckpoint(checkpoint) THEN checkpoint.messages ELSE <<>>

(* C7 as stated: when a store write inside save_message(S, m) fails, the    *)
(* error is propagated and the stored state is unchanged, existence and     *)
(* history, whether S existed before or not.                                *)
C7_Original ==
    \A p \in Procs :
        (Done(p, "save_message") /\ call[p].fault \in {"create_put", "put"})
        => /\ call[p].status = "raised"
           /\ SameSession(store[call[p].sid], call[p].pre)

(* C7 amended: when a store write inside save_message(S, m) fails, the      *)
(* error is propagated without retry and the history of S is unchanged;     *)
(* the existence of S is unchanged when S existed before or when the write  *)
(* that fails is the implicit create_session's, and when S did not exist    *)
(* and the write that fails is the append's, S is left existing with an     *)
(* empty history.                                                           *)
C7_FailedWrite ==
    \A p \in Procs :
        (Done(p, "save_message") /\ call[p].fault \in {"create_put", "put"})
        => LET s == call[p].sid IN
           /\ call[p].status = "raised"
           /\ lastOp = "fault"
           /\ MessagesOf(store[s]) = MessagesOf(call[p].pre)
           /\ (IsCheckpoint(call[p].pre) \/ call[p].fault = "create_put")
              => SameSession(store[s], call[p].pre)
           /\ (~IsCheckpoint(call[p].pre) /\ call[p].fault = "put")
              => store[s] = FreshCheckpoint

\* the append's put failed on a session that held a message
C7_Witness ==
    \E p \in Procs :
        /\ Done(p, "save_message") /\ call[p].fault = "put"
        /\ IsCheckpoint(call[p].pre)
        /\ Len(call[p].pre.messages) = 1

(* C8: save_message(S, m) on a session that does not exist does not fail    *)
(* unless a store access fails: it creates S with an empty message list,    *)
(* then appends m, and afterwards S exists and its history is exactly [m].  *)
C8_CreateOnWrite ==
    \A p \in Procs :
        LET s == call[p].sid IN
        /\ (call[p].op = "save_message" /\ call[p].pc = "sm_reget")
           => store[s] = FreshCheckpoint
        /\ (Done(p, "save_message") /\ ~IsCheckpoint(call[p].pre))
           => /\ call[p].fault \in {"none", "get", "create_put", "reget", "put"}
              /\ call[p].status = "ok" <=> call[p].fault = "none"
              /\ call[p].status = "ok"
                 => /\ Exists(s)
                    /\ store[s].messages = <<_convert_to_langchain_message(call[p].msg)>>
                    /\ call[p].msg.role \in ChatRoles
                       => ContextOf(ChatHistoryResult(store[s], FALSE, now))
                            = <<LoggedMessage(call[p].msg)>>

C8_Witness ==
    \E p \in Procs :
        /\ Done(p, "save_message") /\ ~IsCheckpoint(call[p].pre)
        /\ call[p].status = "ok"
        /\ Len(store[call[p].sid].messages) = 1

(* C9: create_session(S) leaves S existing with an empty message list, also *)
(* when S held messages, and a second create_session(S) right after the     *)
(* first leaves the session as the first left it.                           *)
C9_CreateResets ==
    \A p \in Procs :
        (Done(p, "create_session") /\ call[p].status = "ok")
        => LET s == call[p].sid IN
           /\ Exists(s)
           /\ store[s].messages = <<>>
           /\ (lastDone.op = "create_session" /\ lastDone.sid = s)
              => SameSession(store[s], call[p].pre)

\* create_session returned on a session that held messages
C9_Witness ==
    \E p \in Procs :
        /\ Done(p, "create_session") /\ call[p].status = "ok"
        /\ IsCheckpoint(call[p].pre)
        /\ Len(call[p].pre.messages) >= 1
        /\ store[call[p].sid].messages = <<>>

(* C10: clear_session(S) on a session that does not exist raises no error   *)
(* (unless the store read fails), writes nothing to the store, and S still  *)
(* does not exist afterwards.                                               *)
C10_ClearAbsentIsNoOp ==
    \A p \in Procs :
        (Done(p, "clear_session") /\ ~IsCheckpoint(call[p].pre))
        => /\ ~Exists(call[p].sid)
           /\ lastOp # "put"
           /\ lastPut[call[p].sid] = NoCheckpoint
           /\ call[p].status = "ok" <=> call[p].fault = "none"
           /\ call[p].fault \in {"none", "get"}

C10_Witness ==
    \E p \in Procs :
        /\ Done(p, "clear_session") /\ ~IsCheckpoint(call[p].pre)
        /\ call[p].status = "ok"
        /\ lastOp = "get"

\* ---- C11 ----
\* C11: a session_exists(S) whose store read succeeds answers true exactly
\* when the store holds a checkpoint record for S, whatever the length of
\* the record's message list; right after a successful create_session(S),
\* or a clear_session(S) that found a record, the answer is true while
\* the stored history is empty
C11_ExistsIffRecord ==
    \A p \in SeqClients :
        (Done(p, "session_exists") /\ call[p].fault = "none") =>
            /\ call[p].ret = (lastPut[call[p].sid] # NoCheckpoint)
            /\ call[p].ret = Exists(call[p].sid)
            /\ ( /\ lastDone.sid = call[p].sid
                 /\ \/ lastDone.op = "create_session"
                    \/ lastDone.op = "clear_session" /\ lastDone.found )
               => (call[p].ret = TRUE /\ StoredLen(call[p].sid) = 0)

\* a session that was cleared after holding messages is reported as
\* existing although its message list is empty
C11_Witness ==
    \E p \in SeqClients :
        /\ Done(p, "session_exists") /\ call[p].fault = "none"
        /\ call[p].ret = TRUE
        /\ lastDone.op = "clear_session" /\ lastDone.found
        /\ lastDone.sid = call[p].sid
        /\ StoredLen(call[p].sid) = 0

\* ---- C12 ----
\* C12: for a session with at least one message, get_session_info
\* reports created_at as the smallest and last_activity as the largest
\* timestamp of the ChatMessages passed to save_message, and
\* message_count as the number of stored messages
C12_InfoFromSavedTimestamps ==
    \A p \in SeqClients :
        ( /\ Done(p, "get_session_info") /\ call[p].fault = "none"
          /\ call[p].ret # NoInfo
          /\ Len(saved[call[p].sid]) > 0 ) =>
            /\ call[p].ret.message_count = Len(saved[call[p].sid])
            /\ call[p].ret.created_at = SeqMin(Timestamps(saved[call[p].sid]))
            /\ call[p].ret.last_activity = SeqMax(Timestamps(saved[call[p].sid]))

\* ---- C17 ----
\* C17: the read operations never raise; when the session is absent or a
\* store read of the call fails, get_chat_history and
\* get_conversation_context return the empty sequence and
\* get_session_info returns None; the store is left as it was
C17_ReadsNeverRaise ==
    \A p \in SeqClients :
        LET c == call[p]
            failed == c.fault # "none" \/ c.pre = NoCheckpoint
        IN /\ (Done(p, "get_chat_history") \/ Done(p, "get_conversation_context")) =>
                /\ c.status = "ok"
                /\ store[c.sid] = c.pre
                /\ failed => c.ret = <<>>
           /\ Done(p, "get_session_info") =>
                /\ c.status = "ok"
                /\ store[c.sid] = c.pre
                /\ failed => c.ret = NoInfo

\* ---- C13 ----
\* the role/content pairs session s held when request r arrived
PairsBefore(r, s) == PairsOf(MessagesOf(r.preStore[s]))

\* the request of p has been answered by handler h
Answered(p, h) == req[p].h = h /\ req[p].hpc = "done"

\* C13: a POST /api/chat on session S with text t that answers 200, with
\* no store access failing and no other request running, leaves the
\* history of S extended by exactly (user, t), (assistant, reply), reply
\* being the text of the response; when S was new or empty the history
\* then has 2 entries and get_session_info counts 2 messages
C13_ChatAppendsTwo ==
    \A p \in SeqClients :
        LET r == req[p] IN
        (Answered(p, "chat") /\ r.status = 200 /\ ~r.failed) =>
            /\ r.reply = ReplyText
            /\ StoredPairs(r.sid) =
                 PairsBefore(r, r.sid)
                 \o <<Turn("user", r.message), Turn("assistant", r.reply)>>
            /\ PairsBefore(r, r.sid) = <<>> =>
                 /\ Len(ChatHistoryResult(store[r.sid], FALSE, now)) = 2
                 /\ SessionInfoOf(r.sid, ChatHistoryResult(store[r.sid], FALSE, now),
                                  now).message_count = 2

\* a chat answered 200 on a session that held one message before
C13_Witness ==
    \E p \in SeqClients :
        /\ Answered(p, "chat") /\ req[p].status = 200 /\ ~req[p].failed
        /\ Len(PairsBefore(req[p], req[p].sid)) = 1
        /\ StoredLen(req[p].sid) = 3

\* ---- C14 ----
IsPrefix(s, t) == Len(s) <= Len(t) /\ s = SubSeq(t, 1, Len(s))

\* the steps of the chat handler, with and without create_session
ChatOrder(creating) ==
    <<"exists">> \o (IF creating THEN <<"create">> ELSE <<>>)
    \o <<"save_user", "context", "provider", "save_assistant">>

Occurs(x, s) == \E i \in 1..Len(s) : s[i] = x

\* C14: the chat handler goes through its steps in the order ensure the
\* session, save the user message, read the context, call the provider,
\* save the assistant message, respond; when the provider is called the
\* user message is in the store, and the assistant message is saved only
\* with the text the provider returned
C14_ChatStepOrder ==
    \A p \in SeqClients :
        LET r == req[p]
            stored == StoredPairs(r.sid)
        IN r.h = "chat" =>
            /\ \E creating \in BOOLEAN : IsPrefix(r.events, ChatOrder(creating))
            /\ r.status = 200 =>
                 \E creating \in BOOLEAN : r.events = ChatOrder(creating)
            /\ Occurs("provider", r.events) =>
                 /\ r.sent # <<>>
                 /\ Len(stored) >= 1
                 /\ \/ stored[Len(stored)] = Turn("user", r.message)
                    \/ /\ Len(stored) >= 2
                       /\ Occurs("save_assistant", r.events)
                       /\ stored[Len(stored) - 1] = Turn("user", r.message)
                       /\ stored[Len(stored)] = Turn("assistant", r.reply)
            /\ Occurs("save_assistant", r.events) =>
                 /\ r.reply = ReplyText
                 /\ call[p].op = "save_message" =>
                      call[p].msg.content = r.reply
            /\ ~Occurs("save_assistant", r.events) =>
                 ~\E i \in 1..Len(stored) :
                     /\ i > Len(PairsBefore(r, r.sid))
                     /\ stored[i].role = "assistant"

\* a chat answered 200 after creating its session
C14_Witness ==
    \E p \in SeqClients :
        /\ Answered(p, "chat") /\ req[p].status = 200
        /\ req[p].events = ChatOrder(TRUE)

\* ---- C15 ----
SessionEndpoints == {"history", "clear", "info"}

\* C15: the history, clear and info endpoints answer 404 for a session id
\* the store has no record of, and the store is then exactly as it was
\* when the request arrived: no session created, no history changed
C15_UnknownSessionIs404 ==
    \A p \in SeqClients :
        LET r == req[p] IN
        (r.h \in SessionEndpoints /\ ~IsCheckpoint(r.preStore[r.sid])) =>
            /\ store = r.preStore
            /\ r.hpc = "done" => r.status = 404

\* the clear endpoint has answered 404 on an unknown session while
\* another session holds messages
C15_Witness ==
    \E p \in SeqClients :
        /\ Answered(p, "clear") /\ req[p].status = 404
        /\ ~Exists(req[p].sid)
        /\ \E s \in Sessions : StoredLen(s) > 0

\* ---- C16 ----
StoreEndpoints == {"chat", "upload", "history", "clear", "new", "info"}

\* C16: a request during which a store access raised is answered 500 by
\* every endpoint that touches the store, and never 404
C16_StoreFailureIs500 ==
    \A p \in SeqClients :
        LET r == req[p] IN
        (r.h \in StoreEndpoints /\ r.hpc = "done" /\ r.failed) =>
            r.status = 500

\* ---- C18 ----
\* no session holds a message it did not hold when request r arrived
NoAppend(r) ==
    \A s \in Sessions :
        IsPrefix(MessagesOf(store[s]), MessagesOf(r.preStore[s]))

\* the upload of r got as far as extract_text
Extracting(r) == Occurs("validate", r.events)

\* C18: an upload whose file passes validation and whose extracted text
\* is empty once stripped is answered 400 when the handler gets to the
\* extraction (500 when creating the session failed before), the
\* provider is not called and no message is appended to any session
C18_EmptyTextIs400 ==
    \A p \in SeqClients :
        LET r == req[p]
            x == extract_text(r.file)
        IN (r.h = "upload" /\ x.status = 200 /\ Strip(x.text) = "") =>
            /\ ~Occurs("provider", r.events)
            /\ r.sent = <<>>
            /\ NoAppend(r)
            /\ r.hpc = "done" =>
                 IF Extracting(r) THEN r.status = 400
                 ELSE r.status = 500 /\ r.failed

\* a txt upload holding only whitespace has been answered 400 on a
\* session that holds a message
C18_Witness ==
    \E p \in SeqClients :
        /\ Answered(p, "upload") /\ req[p].status = 400
        /\ extract_text(req[p].file).status = 200
        /\ extract_text(req[p].file).text # ""
        /\ Strip(extract_text(req[p].file).text) = ""
        /\ StoredLen(req[p].sid) > 0

\* ---- C19 ----
FailsValidation(file) ==
    /\ file.filename # ""
    /\ \/ file.size > upload_max_size
       \/ LastDotPart(Lower(file.filename)) \notin allowed_extensions

\* C19: an upload whose file is larger than upload_max_size or whose
\* extension is not allowed is answered 400 when the handler gets to
\* extract_text (500 when creating the session failed before); its
\* content is never read for extraction, the provider is not called and
\* no message is appended
C19_InvalidFileIs400 ==
    \A p \in SeqClients :
        LET r == req[p] IN
        (r.h = "upload" /\ FailsValidation(r.file)) =>
            /\ ~Occurs("extract", r.events)
            /\ ~Occurs("save_user", r.events)
            /\ ~Occurs("provider", r.events)
            /\ r.sent = <<>>
            /\ NoAppend(r)
            /\ r.hpc = "done" =>
                 IF Extracting(r) THEN r.status = 400
                 ELSE r.status = 500 /\ r.failed

\* an upload of a txt file one byte over the limit has been answered 400
C19_Witness ==
    \E p \in SeqClients :
        /\ Answered(p, "upload") /\ req[p].status = 400
        /\ req[p].file.size = upload_max_size + 1
        /\ LastDotPart(Lower(req[p].file.filename)) \in allowed_extensions
        /\ Extracting(req[p])

\* ---- C20 ----
\* what generate_response was asked to send, and what it sent
SystemTurns(sent) == {i \in 1..Len(sent) : sent[i].role = "system"}

Count(x, s) == Cardinality({i \in 1..Len(s) : s[i] = x})

ProviderFailures ==
    { LlmErrorDetail("error"), LlmErrorDetail("empty") }

\* C21: generate_response raises an HTTPException(500) that names the
\* provider error when the upstream call raised and the empty response
\* when the completion had no content; the chat and upload handlers then
\* answer 500 at once, with no assistant message saved, and in no request
\* is the provider called more than once
C21_ProviderFailureIs500 ==
    \A p \in SeqClients :
        LET r == req[p] IN
        r.h \in {"chat", "upload"} =>
            /\ Count("provider", r.events) <= 1
            /\ r.detail # "" =>
                 /\ r.detail \in { HandlerErrorDetail(r.h, d) : d \in ProviderFailures }
                 /\ Count("provider", r.events) = 1
                 /\ r.hpc = "done" /\ r.status = 500
                 /\ r.reply = ""
                 /\ ~Occurs("save_assistant", r.events)
            /\ (r.hpc = "done" /\ Occurs("provider", r.events) /\ r.reply = "") =>
                 r.status = 500 /\ r.detail # ""

\* a chat has been answered 500 because the completion had no content
C21_Witness ==
    \E p \in SeqClients :
        /\ Answered(p, "chat") /\ req[p].status = 500
        /\ req[p].detail = HandlerErrorDetail("chat", LlmErrorDetail("empty"))
        /\ ~req[p].failed

\* ---- C22 ----
\* new is old with one element appended at the end
Extends1(old, new) ==
    Len(new) = Len(old) + 1 /\ SubSeq(new, 1, Len(old)) = old

\* the step is the store write of a call of p on session s at pc
WrittenBy(p, s, pcs) ==
    call[p].sid = s /\ call[p].pc \in pcs /\ call'[p] # call[p]

\* in a sequential execution a history read returns the messages saved
\* since the last reset, in the order they were saved; the log of these
\* messages grows at its end only, so between two resets every read is a
\* prefix of every later read
SequentialReadsAreTheLog ==
    /\ [][\A p \in Procs :
            (call[p].pc = "gh_get" /\ call'[p].pc = "done" /\ ~overlapped) =>
                ContextOf(call'[p].ret) = saved[call[p].sid]]_vars
    /\ [][\A s \in Sessions :
            saved'[s] # saved[s] =>
                saved'[s] = <<>> \/ Extends1(saved[s], saved'[s])]_vars

(* C22 as stated: every change of a session's stored message list appends  *)
(* one message at its end or resets it to empty; in sequential executions   *)
(* every read is a prefix of every later read between two resets            *)
C22_Original ==
    /\ [][\A s \in Sessions :
            store'[s] # store[s] =>
                /\ IsCheckpoint(store'[s])
                /\ \/ store'[s].messages = <<>>
                   \/ Extends1(MessagesOf(store[s]), store'[s].messages)]_vars
    /\ SequentialReadsAreTheLog

\* C22: every change of a session's stored message list is made by the
\* put of a save_message, which writes the list that call fetched with its
\* message appended, or by the put of create_session or clear_session,
\* which writes the empty list; the put of a save_message appends at the
\* end of the stored list when nothing was written since the call fetched
\* it, as in every sequential execution; in sequential executions between
\* two resets every read is a prefix of every later read
C22_AppendOrReset ==
    /\ [][\A s \in Sessions :
            store'[s] # store[s] =>
                \E p \in Procs :
                    \/ /\ WrittenBy(p, s, {"sm_put"})
                       /\ store'[s].messages =
                            Append(call[p].checkpoint.messages,
                                   _convert_to_langchain_message(call[p].msg))
                       /\ (~overlapped \/ call[p].checkpoint = store[s]) =>
                            Extends1(MessagesOf(store[s]), store'[s].messages)
                    \/ /\ WrittenBy(p, s, {"sm_create", "cs_put", "cl_put"})
                       /\ store'[s].messages = <<>>]_vars
    /\ SequentialReadsAreTheLog

\* a sequential execution in which a read has returned two messages
C22_Witness ==
    \E p \in Procs :
        /\ ~overlapped
        /\ Done(p, "get_chat_history")
        /\ Len(call[p].ret) = 2
        /\ ContextOf(call[p].ret) = saved[call[p].sid]

\* ---- C23 ----
\* C23: a POST /api/sessions/new answered 200 returns an id that had no
\* record when the request arrived; afterwards that session exists with an
\* empty history and a message count of 0, and every other session is as
\* it was
C23_NewSessionIsFreshAndEmpty ==
    \A p \in SeqClients :
        LET r == req[p] IN
        (Answered(p, "new") /\ r.status = 200) =>
            /\ ~IsCheckpoint(r.preStore[r.sid])
            /\ Exists(r.sid)
            /\ ChatHistoryResult(store[r.sid], FALSE, now) = <<>>
            /\ SessionInfoOf(r.sid, ChatHistoryResult(store[r.sid], FALSE, now),
                             now).message_count = 0
            /\ \A s \in Sessions \ {r.sid} : store[s] = r.preStore[s]

\* a new session has been created while another session holds messages
C23_Witness ==
    \E p \in SeqClients :
        /\ Answered(p, "new") /\ req[p].status = 200
        /\ \E s \in Sessions \ {req[p].sid} : StoredLen(s) > 0

\* ---- C24 ----
\* C24: when an upload calls the provider, the text it submits is the
\* prefix of the extracted text of length min(len(text),
\* max_context_length), and truncating a text twice with one limit gives
\* what truncating it once gives
C24_SubmittedTextIsPrefix ==
    \A p \in SeqClients :
        LET r == req[p]
            text == extract_text(r.file).text
            n == Min(Len(text), MaxContextLength)
        IN (r.h = "upload" /\ Occurs("provider", r.events)) =>
            /\ Len(r.text) = n
            /\ r.text = SubSeq(text, 1, n)
            /\ r.sent[Len(r.sent)] =
                 Turn("user", "Context:\n" \o SubSeq(text, 1, n)
                              \o "\n\nQuestion: " \o r.message)
            /\ \A limit \in 0..(MaxContextLength + 1) :
                 truncate_context(truncate_context(text, limit), limit)
                   = truncate_context(text, limit)

\* an upload has called the provider with a text that was cut
C24_Witness ==
    \E p \in SeqClients :
        /\ req[p].h = "upload"
        /\ Occurs("provider", req[p].events)
        /\ Len(extract_text(req[p].file).text) > MaxContextLength
        /\ Len(req[p].text) = MaxContextLength

\* ---- C25 ----
\* the step empties the non-empty message list of session s
Erases(s) ==
    /\ MessagesOf(store[s]) # <<>>
    /\ IsCheckpoint(store'[s])
    /\ store'[s].messages = <<>>

\* C25: with two concurrent chats on one session, create_session is
\* called only by a request that arrived while the session was unknown,
\* and stored messages are erased only by the create_session of such a
\* request running after another request has stored messages: the
\* session_exists test of the handler does not protect what was stored in
\* between (the state C25_Witness describes is reachable)
C25_LateCreateErases ==
    /\ [](\A p \in Procs :
            (req[p].h = "chat" /\ Occurs("create", req[p].events)) =>
                ~IsCheckpoint(req[p].preStore[req[p].sid]))
    /\ [][\A s \in Sessions :
            Erases(s) =>
                \E p \in Procs :
                    /\ WrittenBy(p, s, {"cs_put"})
                    /\ req[p].h = "chat" /\ req[p].hpc = "create"
                    /\ ~IsCheckpoint(req[p].preStore[s])]_vars

\* both requests saw session_exists false and called create_session; the
\* create_session of p ran after q had stored its user message, and the
\* session now holds no message
C25_Witness ==
    \E p \in Procs, q \in Procs :
        /\ p # q
        /\ req[p].h = "chat" /\ req[q].h = "chat"
        /\ req[p].sid = req[q].sid
        /\ Occurs("create", req[q].events)
        /\ Occurs("context", req[q].events)
        /\ req[p].hpc = "create"
        /\ Done(p, "create_session") /\ call[p].status = "ok"
        /\ Exists(req[p].sid) /\ StoredLen(req[p].sid) = 0

\* ---- C26 ----
\* C26: a chat whose provider call failed is answered 500; its user
\* message is the last message of the stored history and no assistant
\* message was added (with no store access failing, the history is the
\* one at arrival plus the user message); the history can therefore hold
\* two user messages in a row
C26_UserMessageStaysAfterProviderFailure ==
    \A p \in SeqClients :
        LET r == req[p]
            stored == StoredPairs(r.sid)
        IN (r.h = "chat" /\ r.detail # "") =>
            /\ r.hpc = "done" /\ r.status = 500
            /\ Len(stored) >= 1
            /\ stored[Len(stored)] = Turn("user", r.message)
            /\ ~r.failed => stored = PairsBefore(r, r.sid) \o <<Turn("user", r.message)>>

\* after a failed provider call the history ends with two user messages
C26_Witness ==
    \E p \in SeqClients :
        LET stored == StoredPairs(req[p].sid) IN
        /\ Answered(p, "chat") /\ req[p].status = 500 /\ req[p].detail # ""
        /\ Len(stored) >= 2
        /\ stored[Len(stored)].role = "user"
        /\ stored[Len(stored) - 1].role = "user"

\* ---- C27 ----
\* C27: while an endpoint handles a request for session S, and with every
\* step of a memory service operation it calls for S, the record of every
\* other session, its existence and its messages, stays as it was
C27_OtherSessionsUntouched ==
    /\ [](\A p \in SeqClients :
            req[p].h \in StoreEndpoints =>
                \A s \in Sessions \ {req[p].sid} : store[s] = req[p].preStore[s])
    /\ [][\A s \in Sessions :
            store'[s] # store[s] =>
                \E p \in SeqClients :
                    /\ Running(p)
                    /\ call[p].sid = s
                    /\ req[p].sid = s]_vars

\* a chat has been answered 200 while another session holds messages
C27_Witness ==
    \E p \in SeqClients :
        /\ Answered(p, "chat") /\ req[p].status = 200
        /\ \E s \in Sessions \ {req[p].sid} :
             StoredLen(s) > 0 /\ store[s] = req[p].preStore[s]

\* ---- C28 ----
\* C28: an upload answered 400 has appended no message to any session,
\* and when its session did not exist at arrival (an unknown or an omitted
\* id) the session exists afterwards with an empty history
C28_RejectedUploadLeavesEmptySession ==
    \A p \in SeqClients :
        LET r == req[p] IN
        (Answered(p, "upload") /\ r.status = 400) =>
            /\ NoAppend(r)
            /\ Extracting(r)
            /\ ~Occurs("save_user", r.events)
            /\ ~IsCheckpoint(r.preStore[r.sid]) =>
                 /\ Exists(r.sid)
                 /\ store[r.sid].messages = <<>>

\* an upload without session_id has been answered 400 and its generated
\* session exists, empty
C28_Witness ==
    \E p \in SeqClients :
        /\ Answered(p, "upload") /\ req[p].status = 400
        /\ ~req[p].given
        /\ ~IsCheckpoint(req[p].preStore[req[p].sid])
        /\ store[req[p].sid] = FreshCheckpoint

\* ---- C29 ----
\* the conversation part of the provider request of r: what follows the
\* system instruction
ConversationPart(r) == SubSeq(r.sent, 2, Len(r.sent))

\* the messages session s held when the provider was called by the chat
\* request that is being handled: the stored ones, less the assistant
\* message once it is saved
HeldAtProviderCall(s) ==
    LET stored == StoredPairs(s) IN
    IF stored # <<>> /\ stored[Len(stored)].role = "assistant"
    THEN SubSeq(stored, 1, Len(stored) - 1) ELSE stored

\* chat request r called the provider and what it sent is the window of
\* the claim
RecentWindowSent(r) ==
    LET conv == ConversationPart(r)
        held == HeldAtProviderCall(r.sid)
    IN /\ Len(conv) <= DefaultMaxMessages
       /\ conv = LastN(held, Min(DefaultMaxMessages, Len(held)))
       /\ Len(conv) >= 1
       /\ conv[Len(conv)] = Turn("user", r.message)

\* C29: in a sequential chat request that called the provider and in
\* which no store access raised, the conversation part of the provider
\* request holds at most 10 messages, they are the most recent messages
\* of the session in order, and the last one is the user message of the
\* request
C29_RecentTenWhenReadsSucceed ==
    \A p \in SeqClients :
        (req[p].h = "chat" /\ Occurs("provider", req[p].events) /\ ~req[p].failed) =>
            RecentWindowSent(req[p])

\* a chat on a session of more than 10 messages has called the provider
\* with a window of exactly 10
C29_TruncatedWindow ==
    \E p \in SeqClients :
        /\ Answered(p, "chat") /\ req[p].status = 200 /\ ~req[p].failed
        /\ Len(PairsBefore(req[p], req[p].sid)) >= DefaultMaxMessages
        /\ Len(ConversationPart(req[p])) = DefaultMaxMessages

\* ---- C30 ----
\* the role/content pairs of the ChatMessages of a response
ResponsePairs(messages) ==
    [i \in 1..Len(messages) |-> Turn(messages[i].role, messages[i].content)]

\* process p, handling a history request, makes the store read from which
\* get_session_info counts the messages
InfoReadOfHistory(p) ==
    /\ req[p].h = "history"
    /\ req[p].hpc = "info"
    /\ call[p].pc = "gi_hist"
    /\ call'[p].pc = "done"

\* C30: when the session holds at the session-info read of a history
\* request what the request read as its messages (as it does when no
\* other request touched the session in between), the message_count of
\* the response is the number of its messages
C30_CountIsLengthWhenUntouched ==
    [][\A p \in SeqClients :
          (InfoReadOfHistory(p) /\ StoredPairs(req[p].sid) = ResponsePairs(req[p].messages)) =>
              /\ call'[p].ret # NoInfo
              /\ call'[p].ret.message_count = Len(req[p].messages)]_vars

\* a history request has been answered 200 with a message_count that is
\* not the number of its messages
C30_Witness ==
    \E p \in SeqClients :
        /\ Answered(p, "history") /\ req[p].status = 200
        /\ req[p].info.message_count # Len(req[p].messages)

\* the same because of a save_message: more messages counted than listed
C30_CountAboveLength ==
    \E p \in SeqClients :
        /\ Answered(p, "history") /\ req[p].status = 200
        /\ req[p].info.message_count > Len(req[p].messages)

\* the same because of a clear_session: messages listed, none counted
C30_CountBelowLength ==
    \E p \in SeqClients :
        /\ Answered(p, "history") /\ req[p].status = 200
        /\ req[p].info.message_count = 0
        /\ Len(req[p].messages) > 0

\* a history request has been answered 200 with messages and the matching
\* message_count
C30_CountIsLength ==
    \E p \in SeqClients :
        /\ Answered(p, "history") /\ req[p].status = 200
        /\ Len(req[p].messages) > 0
        /\ req[p].info.message_count = Len(req[p].messages)

\* ---- C31 ----
\* the response trimmed and lower-cased
Normalized(response) == Lower(Strip(response))

\* need_approval runs with the human response it was resumed with
ReceivesResponse ==
    /\ snapshot.streaming
    /\ snapshot.next = "need_approval"
    /\ snapshot.resume # None
    /\ snapshot' # snapshot

\* need_approval runs on a last message without tool calls
RunsWithoutToolCalls ==
    /\ snapshot.streaming
    /\ snapshot.next = "need_approval"
    /\ ~HasToolCalls(snapshot.messages[Len(snapshot.messages)])
    /\ snapshot' # snapshot

\* the run has ended: no node is next, no interrupt is pending
RunEnded(s) == s.next = "none" /\ ~s.streaming /\ s.interrupts = <<>>

\* C31: the tools node is next only in a run that need_approval has just
\* sent there on a response that is 'yes' once trimmed and lower-cased,
\* and such a response sends the run to tools; a response that is 'no'
\* ends the run; any other response makes need_approval the next node
\* again; a last message without tool calls ends the run without an
\* interrupt
C31_ToolsOnlyAfterYes ==
    /\ [](snapshot.next = "tools" =>
            /\ snapshot.streaming
            /\ snapshot.approved
            /\ snapshot.received # None
            /\ Normalized(snapshot.received[1]) = "yes")
    /\ [][snapshot'.next = "tools" /\ snapshot.next # "tools" => ReceivesResponse]_vars
    /\ [][ReceivesResponse =>
            LET answer == Normalized(snapshot.resume[1]) IN
            IF answer = "yes" THEN snapshot'.next = "tools" /\ snapshot'.streaming
            ELSE IF answer = "no" THEN RunEnded(snapshot')
            ELSE /\ snapshot'.next = "need_approval"
                 /\ snapshot'.streaming
                 /\ snapshot'.messages = snapshot.messages]_vars
    /\ [][RunsWithoutToolCalls => RunEnded(snapshot')]_vars

\* the tools node is about to run after the response " YES\n"
C31_Witness ==
    /\ snapshot.next = "tools"
    /\ snapshot.streaming
    /\ snapshot.received = Some(" YES\n")

\* the run has been interrupted again after a response that was neither
\* yes nor no
C31_AskedAgain ==
    /\ snapshot.interrupts # <<>>
    /\ snapshot.received # None
    /\ Normalized(snapshot.received[1]) \notin {"yes", "no"}

\* a run has ended on a response of no
C31_EndedOnNo ==
    /\ RunEnded(snapshot)
    /\ snapshot.received = Some("No ")
    /\ HasToolCalls(snapshot.messages[Len(snapshot.messages)])

====
